---- MODULE Spec2Model ----
(***************************************************************************)
(* A model of the copy/backup orchestration of the oras CLI:              *)
(*   cmd/oras/root/cp.go      runCopy, doCopy, recursiveCopy,             *)
(*                            prepareCopyOption                            *)
(*   cmd/oras/root/backup.go  runBackup, backupTag                         *)
(* The content stores and the graph replication engine (oras-go) are      *)
(* external collaborators; they are modelled by the contract the          *)
(* specification gives them.                                               *)
(***************************************************************************)
EXTENDS Integers, Sequences, FiniteSets, TLC

(***************************************************************************)
(* Bounds of the model.                                                    *)
(***************************************************************************)
\* the longest list of extra destination tags a copy is given
MaxExtraRefs == 2
\* the longest list of tags a backup is given
MaxTags == 2

(***************************************************************************)
(* Data model: descriptors and the source store.                           *)
(***************************************************************************)
MediaTypeImageIndex == "application/vnd.oci.image.index.v1+json"
MediaTypeManifestList == "application/vnd.docker.distribution.manifest.list.v2+json"
MediaTypeImageManifest == "application/vnd.oci.image.manifest.v1+json"

\* the digests of the nodes the source store holds
Digests == {"aaa", "bbb", "ccc", "ddd", "eee"}
\* the order in which a store lists its nodes
NodeOrder == <<"aaa", "bbb", "ccc", "ddd", "eee">>
\* the digest the source tag resolves to
RootDigest == "aaa"
\* the platform opts.Platform may select, and the child manifest that has it
TargetPlatform == "linux/amd64"
PlatformManifest == "bbb"

Nil == "nil"
NoSubject == ""
ZeroDescriptor == [digest |-> "", mediaType |-> "", size |-> 0]

RECURSIVE SeqToSet(_)
SeqToSet(s) == IF s = <<>> THEN {} ELSE {Head(s)} \cup SeqToSet(Tail(s))

\* slices.DeleteFunc(s, del): s without the elements del holds of
DeleteFunc(s, del(_)) == SelectSeq(s, LAMBDA d : ~del(d))

\* content.Equal: same digest, media type and size
Equal(a, b) ==
    /\ a.digest = b.digest
    /\ a.mediaType = b.mediaType
    /\ a.size = b.size

\* all interleavings of two sequences (each keeps its own order)
RECURSIVE Interleavings(_, _)
Interleavings(s, t) ==
    IF s = <<>> THEN {t}
    ELSE IF t = <<>> THEN {s}
    ELSE {<<Head(s)>> \o r : r \in Interleavings(Tail(s), t)}
         \cup {<<Head(t)>> \o r : r \in Interleavings(s, Tail(t))}

VARIABLES
    store,          \* the source store: media type, manifests and subject of each node
    opts,           \* the command's options (flags and parsed references)
    pc,             \* the position of the command
    dstContent,     \* the digests the destination store holds
    dstTags,        \* the destination's tags: reference -> digest ("" when not set)
    desc,           \* doCopy's desc: the resolved root
    err,            \* the error of the step in flight / returned
    extendedCopyOptions, \* the caller's copy options: FindPredecessors and MountFrom
    calleeOpts,     \* the by-value copy of the options in recursiveCopy / backupTag
    tracking,       \* the status handler's tracking scope
    calls,          \* the replication engine calls made so far
    srcOps,         \* the operations the command itself issued against the source store
    reported,       \* what the metadata handler was told
    tagNDesc,       \* the digest TagN resolved at the destination
    pending,        \* the positions of opts.extraRefs TagN has not applied yet
    tags,           \* runBackup's tags: the tags to back up
    tagIndex,       \* the position in tags of the tag being backed up
    referrerCount,  \* the referrer count backupTag returned for the tag
    fs,             \* the files of the run: staging directory, temporary archive, output path
    archive,        \* what the archive at the output path holds
    args,           \* the argument the command or the function is called with
    ret             \* what the function called last returned

vars == <<store, opts, pc, dstContent, dstTags, desc, err, extendedCopyOptions,
          calleeOpts, tracking, calls, srcOps, reported, tagNDesc, pending,
          tags, tagIndex, referrerCount, fs, archive, args, ret>>

\* the argument and the return values of the calls made before the run
callVars == <<args, ret>>

\* the state only oras backup uses
backupVars == <<tags, tagIndex, referrerCount, fs, archive>>
\* the state only oras cp uses
copyVars == <<tagNDesc, pending>>

(***************************************************************************)
(* The source store (a read-only graph target).                            *)
(***************************************************************************)
IndexMediaTypes == {MediaTypeImageIndex, MediaTypeManifestList}

\* the tags of the source repository
SrcTags == [v1 |-> RootDigest, v2 |-> "bbb"]

Descriptor(d) == [digest |-> d, mediaType |-> store.mediaType[d], size |-> store.size[d]]

Descriptors == {Descriptor(d) : d \in Digests}

\* the Manifests field of the index the root's content decodes to
IndexManifests(root) ==
    [i \in 1..Len(store.manifests[root.digest]) |-> Descriptor(store.manifests[root.digest][i])]

\* registry.Referrers(ctx, src, desc, ""): the nodes whose subject is desc
SrcReferrers(node) ==
    LET refs == SelectSeq(NodeOrder, LAMBDA n : store.subject[n] /= NoSubject
                                                /\ store.subject[n] = node.digest)
    IN  [i \in 1..Len(refs) |-> Descriptor(refs[i])]

IsDigest(ref) == ref \in Digests

\* what a reference names at the source: a digest, or "" when nothing
SrcTarget(ref) ==
    IF ref \in DOMAIN SrcTags THEN SrcTags[ref]
    ELSE IF IsDigest(ref) THEN ref
    ELSE ""

\* oras.Resolve(ctx, src, ref, rOpts): the outcomes; platform = "" is no target platform
SrcResolve(ref, platform) ==
    LET d == SrcTarget(ref)
        failed == [desc |-> ZeroDescriptor, err |-> "ErrResolve"]
    IN  IF d = "" THEN {failed}
        ELSE IF platform = "" THEN {[desc |-> Descriptor(d), err |-> Nil], failed}
        ELSE IF store.mediaType[d] \in IndexMediaTypes
             THEN IF PlatformManifest \in SeqToSet(store.manifests[d])
                  THEN {[desc |-> Descriptor(PlatformManifest), err |-> Nil], failed}
                  ELSE {failed}
             ELSE {[desc |-> Descriptor(d), err |-> Nil], failed}

(***************************************************************************)
(* Predecessor-lookup function values.  A value is the function doCopy     *)
(* installs (base = "Referrers") or no function (base = "nil"), wrapped by *)
(* the closures prepareCopyOption builds, innermost first: each closure    *)
(* captures a root and the merged referrers of the root's children.        *)
(***************************************************************************)
PanicNilFunc == "panic: nil func"

NilFindPredecessors == [base |-> "nil", layers |-> <<>>]
ReferrersFindPredecessors == [base |-> "Referrers", layers |-> <<>>]

LookupError(e) == [descs |-> <<>>, err |-> e]

\* a call of the function value base names; fails says the source's answer is an error
BaseLookup(base, node, fails) ==
    IF base = "nil" THEN LookupError(PanicNilFunc)
    ELSE IF fails THEN LookupError("ErrReferrers")
    ELSE [descs |-> SrcReferrers(node), err |-> Nil]

\* variants of the augmented function: one that never appends the merged set,
\* one that answers for the root with the merged set alone, one that appends
\* the merged set for every node
AugmentedBaseOnly(r, node, root, referrers) ==
    IF r.err /= Nil THEN LookupError(r.err)
    ELSE [descs |-> r.descs, err |-> Nil]

AugmentedWithoutBase(r, node, root, referrers) ==
    IF r.err /= Nil THEN LookupError(r.err)
    ELSE IF Equal(node, root) THEN [descs |-> referrers, err |-> Nil]
    ELSE [descs |-> r.descs, err |-> Nil]

AugmentedForEveryNode(r, node, root, referrers) ==
    IF r.err /= Nil THEN LookupError(r.err)
    ELSE [descs |-> r.descs \o referrers, err |-> Nil]

\* the closure prepareCopyOption returns, applied to desc; r is what the
\* captured findPredecessor returned for desc
AugmentedFindPredecessors(r, node, root, referrers) ==
    IF r.err /= Nil THEN LookupError(r.err)
    ELSE IF Equal(node, root) THEN [descs |-> r.descs \o referrers, err |-> Nil]
    ELSE [descs |-> r.descs, err |-> Nil]

\* a call fp(ctx, src, node)
RECURSIVE CallFindPredecessors(_, _, _)
CallFindPredecessors(fp, node, fails) ==
    IF fp.layers = <<>> THEN BaseLookup(fp.base, node, fails)
    ELSE LET n == Len(fp.layers)
             inner == [fp EXCEPT !.layers = SubSeq(fp.layers, 1, n - 1)]
         IN  AugmentedFindPredecessors(CallFindPredecessors(inner, node, fails), node,
                                       fp.layers[n].root, fp.layers[n].referrers)

\* all ways the answers for the children merge into one list
RECURSIVE Merges(_)
Merges(lists) ==
    IF lists = <<>> THEN {<<>>}
    ELSE UNION {Interleavings(Head(lists), m) : m \in Merges(Tail(lists))}

\* graph.FindPredecessors(ctx, src, descs, opts): the predecessors of all descs,
\* each asked of opts.FindPredecessors; failing is the set of digests the
\* source answers with an error
GraphFindPredecessors(descs, fp, failing) ==
    LET answer(i) == CallFindPredecessors(fp, descs[i], descs[i].digest \in failing)
        errors == {answer(i).err : i \in 1..Len(descs)} \ {Nil}
    IN  IF errors /= {} THEN {LookupError(e) : e \in errors}
        ELSE {[descs |-> m, err |-> Nil] :
                 m \in Merges([i \in 1..Len(descs) |-> answer(i).descs])}

SrcOp(op, arg) == [op |-> op, arg |-> arg]

(***************************************************************************)
(* prepareCopyOption: the outcomes [opts, err, ops] of one call; opts is   *)
(* the FindPredecessors field of the options returned, ops the operations  *)
(* issued against the source.                                              *)
(***************************************************************************)
AugmentOptions(fp, root, referrers) ==
    [fp EXCEPT !.layers = Append(fp.layers, [root |-> root, referrers |-> referrers])]

\* variants of the step after the lookup: one that keeps the root among the
\* referrers, one that goes on after a failed lookup
PrepareKeepingRoot(root, fp, found, ops) ==
    IF found.err /= Nil THEN [opts |-> fp, err |-> found.err, ops |-> ops]
    ELSE IF Len(found.descs) = 0
         THEN [opts |-> fp, err |-> Nil, ops |-> ops]
         ELSE [opts |-> AugmentOptions(fp, root, found.descs), err |-> Nil, ops |-> ops]

PrepareIgnoringLookupError(root, fp, found, ops) ==
    LET referrers == DeleteFunc(found.descs, LAMBDA d : Equal(d, root))
    IN  IF Len(referrers) = 0
        THEN [opts |-> fp, err |-> Nil, ops |-> ops]
        ELSE [opts |-> AugmentOptions(fp, root, referrers), err |-> Nil, ops |-> ops]

\* lines 261-287: after the children's referrers were gathered
PrepareWithReferrers(root, fp, found, ops) ==
    IF found.err /= Nil THEN [opts |-> fp, err |-> found.err, ops |-> ops]
    ELSE LET referrers == DeleteFunc(found.descs, LAMBDA d : Equal(d, root))
         IN  IF Len(referrers) = 0
             THEN [opts |-> fp, err |-> Nil, ops |-> ops]
             ELSE [opts |-> AugmentOptions(fp, root, referrers), err |-> Nil, ops |-> ops]

\* lines 247-273: the root is an index
PrepareIndex(root, fp) ==
    LET fetch == <<SrcOp("FetchAll", root.digest)>>
        manifests == IndexManifests(root)
        queries == [i \in 1..Len(manifests) |-> SrcOp("Referrers", manifests[i].digest)]
    IN  {[opts |-> fp, err |-> "ErrFetch", ops |-> fetch],
         [opts |-> fp, err |-> "ErrDecode", ops |-> fetch]}
        \cup
        IF Len(manifests) = 0
        THEN {[opts |-> fp, err |-> Nil, ops |-> fetch]}
        ELSE {PrepareWithReferrers(root, fp, found,
                                   IF found.err = PanicNilFunc THEN fetch ELSE fetch \o queries) :
                 found \in UNION {GraphFindPredecessors(manifests, fp, failing) :
                                     failing \in SUBSET SeqToSet(store.manifests[root.digest])}}

\* a variant of prepareCopyOption without the branch for roots that are no index
PrepareAlwaysFetching(root, fp) == PrepareIndex(root, fp)

\* prepareCopyOption, lines 242-288
prepareCopyOption(root, fp) ==
    IF root.mediaType /= MediaTypeImageIndex /\ root.mediaType /= MediaTypeManifestList
    THEN {[opts |-> fp, err |-> Nil, ops |-> <<>>]}
    ELSE PrepareIndex(root, fp)

(***************************************************************************)
(* The graph replication engine and the destination store (oras-go).       *)
(* An engine call has the outcomes [err, added, tag, desc]: the nodes it   *)
(* wrote to the destination, the reference it tagged ("" when none) and    *)
(* the descriptor it resolved.                                             *)
(***************************************************************************)
\* the nodes a node's content points to: the manifests of an index, the subject
Successors(d) ==
    SeqToSet(store.manifests[d])
    \cup (IF store.subject[d] = NoSubject THEN {} ELSE {store.subject[d]})

\* the graph reachable from the nodes of S
RECURSIVE DownClosure(_)
DownClosure(S) ==
    LET T == S \cup UNION {Successors(d) : d \in S}
    IN  IF T = S THEN S ELSE DownClosure(T)

\* what the engine's predecessor lookup reports for a node; without a function
\* the engine asks the source store for the node's predecessors
EnginePredecessors(fp, d) ==
    IF fp = NilFindPredecessors
    THEN {r.digest : r \in SeqToSet(SrcReferrers(Descriptor(d)))}
    ELSE {r.digest : r \in SeqToSet(CallFindPredecessors(fp, Descriptor(d), FALSE).descs)}

\* everything the predecessor function reports, from the nodes of S upwards
RECURSIVE UpClosure(_, _)
UpClosure(S, fp) ==
    LET T == S \cup UNION {EnginePredecessors(fp, d) : d \in S}
    IN  IF T = S THEN S ELSE UpClosure(T, fp)

\* what a copy that fails may have written already: nothing, or all but the root
Partial(nodes, root) == {{}, nodes \ {root.digest}}

EngineOutcome(e, added, tag, d) == [err |-> e, added |-> added, tag |-> tag, desc |-> d]

\* oras.CopyGraph(ctx, src, dst, root, opts): the graph reachable from root
CopyGraph(root) ==
    LET nodes == DownClosure({root.digest})
    IN  {EngineOutcome(Nil, nodes, "", root)}
        \cup {EngineOutcome("ErrCopy", part, "", root) : part \in Partial(nodes, root)}

\* oras.ExtendedCopyGraph(ctx, src, dst, root, opts): the graph of root plus
\* everything the predecessor function reports
ExtendedCopyGraphNodes(root, fp) == DownClosure(UpClosure({root.digest}, fp))

ExtendedCopyGraph(root, fp) ==
    LET nodes == ExtendedCopyGraphNodes(root, fp)
    IN  {EngineOutcome(Nil, nodes, "", root)}
        \cup {EngineOutcome("ErrCopy", part, "", root) : part \in Partial(nodes, root)}

\* oras.Copy(ctx, src, srcRef, dst, dstRef, opts): resolve, copy the graph, tag
Copy(srcRef, dstRef, platform) ==
    UNION {IF r.err /= Nil THEN {EngineOutcome("ErrCopy", {}, "", ZeroDescriptor)}
           ELSE LET nodes == DownClosure({r.desc.digest})
                IN  {EngineOutcome(Nil, nodes, dstRef, r.desc),
                     EngineOutcome("ErrTag", nodes, "", ZeroDescriptor)}
                    \cup {EngineOutcome("ErrCopy", part, "", ZeroDescriptor) :
                             part \in Partial(nodes, r.desc)} :
           r \in SrcResolve(srcRef, platform)}

\* oras.ExtendedCopy(ctx, src, srcRef, dst, dstRef, opts): resolve, extended copy, tag
ExtendedCopy(srcRef, dstRef, fp) ==
    UNION {IF r.err /= Nil THEN {EngineOutcome("ErrCopy", {}, "", ZeroDescriptor)}
           ELSE LET nodes == ExtendedCopyGraphNodes(r.desc, fp)
                IN  {EngineOutcome(Nil, nodes, dstRef, r.desc),
                     EngineOutcome("ErrTag", nodes, "", ZeroDescriptor)}
                    \cup {EngineOutcome("ErrCopy", part, "", ZeroDescriptor) :
                             part \in Partial(nodes, r.desc)} :
           r \in SrcResolve(srcRef, "")}

\* the references the destination may be tagged with
DstRefs == {"v1", "v2", "aaa", "t2", "t3"}

\* the destination after an engine call with outcome o
ContentAfter(o) == dstContent \cup o.added
TagsAfter(o) == IF o.tag = "" THEN dstTags ELSE [dstTags EXCEPT ![o.tag] = o.desc.digest]

\* what a reference resolves to at the destination: a digest, or "" when not found
DstResolve(ref) ==
    IF ref \in DstRefs /\ dstTags[ref] /= "" THEN dstTags[ref]
    ELSE IF ref \in dstContent THEN ref
    ELSE ""

\* registry.Referrers(ctx, dst, desc, ""): the destination's nodes whose subject is desc
DstReferrers(node) ==
    LET refs == SelectSeq(NodeOrder, LAMBDA n : n \in dstContent
                                                /\ store.subject[n] /= NoSubject
                                                /\ store.subject[n] = node.digest)
    IN  [i \in 1..Len(refs) |-> Descriptor(refs[i])]

\* an engine call as the model records it
EngineCall(op, root, dstRef, options, extended) ==
    [op |-> op, root |-> root, dstRef |-> dstRef, mountFrom |-> options.MountFrom,
     findPredecessors |-> IF extended THEN options.FindPredecessors ELSE NilFindPredecessors]

(***************************************************************************)
(* The inputs of a run.                                                    *)
(***************************************************************************)
SeqsUpTo(S, n) == UNION {[1..k -> S] : k \in 0..n}

RemoteTarget(registry, repository) ==
    [remote |-> TRUE, registry |-> registry, repository |-> repository]
LocalTarget == [remote |-> FALSE, registry |-> "", repository |-> ""]

\* source and destination: same registry, different registries, a local store on a side
TargetPairs ==
    {<<RemoteTarget("r1", "repoA"), RemoteTarget("r1", "repoB")>>,
     <<RemoteTarget("r1", "repoA"), RemoteTarget("r2", "repoA")>>,
     <<RemoteTarget("r1", "repoA"), LocalTarget>>,
     <<LocalTarget, RemoteTarget("r1", "repoA")>>}

\* the media type and the manifests of the node the source tag names
RootShapes ==
    {[mediaType |-> MediaTypeImageIndex, manifests |-> <<>>],
     [mediaType |-> MediaTypeImageIndex, manifests |-> <<"bbb", "ccc">>],
     [mediaType |-> MediaTypeManifestList, manifests |-> <<"bbb">>],
     [mediaType |-> MediaTypeImageManifest, manifests |-> <<>>]}

SourceStores ==
    {[mediaType |-> [d \in Digests |-> IF d = RootDigest THEN shape.mediaType
                                       ELSE MediaTypeImageManifest],
      manifests |-> [d \in Digests |-> IF d = RootDigest THEN shape.manifests ELSE <<>>],
      subject   |-> [d \in Digests |-> CASE d = "aaa" -> sa
                                         [] d = "ddd" -> sd
                                         [] d = "eee" -> se
                                         [] OTHER -> NoSubject],
      size      |-> [d \in Digests |-> 1]] :
        shape \in RootShapes,
        sa \in {NoSubject, "ccc"},
        sd \in {"ccc", "aaa"},
        se \in {"ddd", "bbb"}}

ExtraTagNames == {"t2", "t3"}

\* the default of the concurrency flag; the flag is varied where the fan-out
\* has more than one extra reference to tag
DefaultConcurrency == 3

ConcurrencyFlags(extra) ==
    IF Len(extra) >= 2 THEN {1, DefaultConcurrency} ELSE {DefaultConcurrency}

CopyOptions ==
    UNION {
        {[cmd |-> "cp", recursive |-> rec, fromRef |-> from, toRef |-> to, extraRefs |-> extra,
          platform |-> pf, src |-> tp[1], dst |-> tp[2], concurrency |-> conc,
          includeReferrers |-> FALSE, tags |-> <<>>, outputFormat |-> ""] :
            rec \in BOOLEAN,
            from \in {"v1", RootDigest},
            to \in {"", "v1", RootDigest},
            pf \in {"", TargetPlatform},
            tp \in TargetPairs,
            conc \in ConcurrencyFlags(extra)} :
        extra \in SeqsUpTo(ExtraTagNames, MaxExtraRefs)}

(***************************************************************************)
(* Strings.  A string the command parses is the sequence of its            *)
(* characters; Str gives the name the stores know it by.                   *)
(***************************************************************************)
Digit == {"0", "1", "2", "3", "4", "5", "6", "7", "8", "9"}
Lower == {"a", "b", "c", "d", "e", "f", "g", "h", "i", "j", "k", "l", "m",
          "n", "o", "p", "q", "r", "s", "t", "u", "v", "w", "x", "y", "z"}
Upper == {"A", "B", "C", "D", "E", "F", "G", "H", "I", "J", "K", "L", "M",
          "N", "O", "P", "Q", "R", "S", "T", "U", "V", "W", "X", "Y", "Z"}
\* the class \w of the regular expressions
Word == Digit \cup Lower \cup Upper \cup {"_"}
\* the characters strings.TrimSpace takes for white space
Space == {" ", "\t", "\n", "\r"}

RECURSIVE Str(_)
Str(s) ==
    IF s = <<>> THEN ""
    ELSE IF Len(s) = 1 THEN s[1]
    ELSE LET half == Len(s) \div 2
         IN  Str(SubSeq(s, 1, half)) \o Str(SubSeq(s, half + 1, Len(s)))

\* n times the character c
Repeat(c, n) == [i \in 1..n |-> c]

\* strings.LastIndexByte(s, c), counted from 1: 0 when c is not in s
LastIndexByte(s, c) ==
    IF \E i \in 1..Len(s) : s[i] = c
    THEN CHOOSE i \in 1..Len(s) : s[i] = c /\ \A j \in (i + 1)..Len(s) : s[j] /= c
    ELSE 0

\* strings.Index(s, c), counted from 1: 0 when c is not in s
IndexByte(s, c) ==
    IF \E i \in 1..Len(s) : s[i] = c
    THEN CHOOSE i \in 1..Len(s) : s[i] = c /\ \A j \in 1..(i - 1) : s[j] /= c
    ELSE 0

\* strings.Split(s, sep) for a separator of one character
RECURSIVE Split(_, _)
Split(s, sep) ==
    LET i == IndexByte(s, sep)
    IN  IF i = 0 THEN <<s>>
        ELSE <<SubSeq(s, 1, i - 1)>> \o Split(SubSeq(s, i + 1, Len(s)), sep)

\* strings.TrimSpace(s)
RECURSIVE TrimLeft(_)
TrimLeft(s) == IF s /= <<>> /\ Head(s) \in Space THEN TrimLeft(Tail(s)) ELSE s
RECURSIVE TrimRight(_)
TrimRight(s) ==
    IF s /= <<>> /\ s[Len(s)] \in Space THEN TrimRight(SubSeq(s, 1, Len(s) - 1)) ELSE s
TrimSpace(s) == TrimRight(TrimLeft(s))

\* strings.HasSuffix(s, suffix)
HasSuffix(s, suffix) ==
    /\ Len(s) >= Len(suffix)
    /\ SubSeq(s, Len(s) - Len(suffix) + 1, Len(s)) = suffix

\* the most characters tagRegexp lets follow the first one
TagTailMax == 127

\* a variant of tagRegexp that lets any number of characters follow the first
tagRegexpUnbounded(s) ==
    /\ Len(s) >= 1
    /\ s[1] \in Word
    /\ \A i \in 2..Len(s) : s[i] \in Word \cup {".", "-"}

\* a variant of tagRegexp that lets a tag start with any of its characters
tagRegexpAnyFirst(s) ==
    /\ Len(s) >= 1
    /\ Len(s) - 1 <= TagTailMax
    /\ \A i \in 1..Len(s) : s[i] \in Word \cup {".", "-"}

\* tagRegexp.MatchString(s), line 52: ^[\w][\w.-]{0,127}$
tagRegexp(s) ==
    /\ Len(s) >= 1
    /\ s[1] \in Word
    /\ Len(s) - 1 <= TagTailMax
    /\ \A i \in 2..Len(s) : s[i] \in Word \cup {".", "-"}

\* a label of a repository path: lower-case letters and digits, with single
\* separators between them
RepositoryChars == Lower \cup Digit \cup {".", "_", "-", "/"}
RepositorySeparators == {".", "_", "-", "/"}
ValidRepository(s) ==
    /\ Len(s) >= 1
    /\ \A i \in 1..Len(s) : s[i] \in RepositoryChars
    /\ s[1] \notin RepositorySeparators
    /\ s[Len(s)] \notin RepositorySeparators
    /\ \A i \in 1..(Len(s) - 1) :
          s[i] = "/" => s[i + 1] \notin RepositorySeparators
    /\ \A i \in 2..Len(s) :
          s[i] = "/" => s[i - 1] \notin RepositorySeparators

\* a registry: a host name with an optional port
ValidRegistry(s) ==
    /\ Len(s) >= 1
    /\ \A i \in 1..Len(s) : s[i] \in Word \cup {".", "-", ":"}
    /\ s[1] \notin {":"}
    /\ LET c == IndexByte(s, ":")
       IN  c /= 0 => /\ c < Len(s)
                     /\ \A i \in (c + 1)..Len(s) : s[i] \in Digit

\* registry.ParseReference(artifact) for an artifact without '@':
\* [registry, repository, reference, err]; the registry ends at the first
\* slash, a reference is what follows the first colon of the rest and has to
\* be a tag
ParseReference(artifact) ==
    LET slash == IndexByte(artifact, "/")
        registry == SubSeq(artifact, 1, slash - 1)
        path == SubSeq(artifact, slash + 1, Len(artifact))
        colon == IndexByte(path, ":")
        repo == IF colon = 0 THEN path ELSE SubSeq(path, 1, colon - 1)
        reference == IF colon = 0 THEN <<>> ELSE SubSeq(path, colon + 1, Len(path))
        invalid == [registry |-> <<>>, repository |-> <<>>, reference |-> <<>>,
                    err |-> "ErrInvalidReference"]
    IN  IF slash = 0 THEN invalid
        ELSE IF ~ValidRegistry(registry) THEN invalid
        ELSE IF ~ValidRepository(repo) THEN invalid
        ELSE IF reference /= <<>> /\ ~tagRegexp(reference) THEN invalid
        ELSE [registry |-> registry, repository |-> repo, reference |-> reference,
              err |-> Nil]

\* Reference.String(): registry/repository, then :reference when there is one
ReferenceString(ref) ==
    ref.registry \o <<"/">> \o ref.repository
    \o (IF ref.reference = <<>> THEN <<>> ELSE <<":">> \o ref.reference)

\* a variant of the check of the tags that does not skip the empty ones
RECURSIVE ValidateTagsKeepingEmpty(_)
ValidateTagsKeepingEmpty(tagList) ==
    IF tagList = <<>> THEN [tags |-> <<>>, bad |-> <<>>]
    ELSE LET tag == TrimSpace(Head(tagList))
             rest == ValidateTagsKeepingEmpty(Tail(tagList))
         IN  IF ~tagRegexp(tag) THEN [tags |-> <<>>, bad |-> IF tag = <<>> THEN <<" ">> ELSE tag]
             ELSE IF rest.bad /= <<>> THEN rest
             ELSE [tags |-> <<tag>> \o rest.tags, bad |-> <<>>]

\* a variant of the check of the tags that does not trim them
RECURSIVE ValidateTagsUntrimmed(_)
ValidateTagsUntrimmed(tagList) ==
    IF tagList = <<>> THEN [tags |-> <<>>, bad |-> <<>>]
    ELSE LET tag == Head(tagList)
             rest == ValidateTagsUntrimmed(Tail(tagList))
         IN  IF tag = <<>> THEN rest
             ELSE IF ~tagRegexp(tag) THEN [tags |-> <<>>, bad |-> tag]
             ELSE IF rest.bad /= <<>> THEN rest
             ELSE [tags |-> <<tag>> \o rest.tags, bad |-> <<>>]

\* parseArtifactsToBackup, lines 365-378: the tags are trimmed, the empty ones
\* skipped, the first one tagRegexp does not match ends the parse; the
\* outcome is [tags, bad], bad the offending tag or <<>>
RECURSIVE ValidateTags(_)
ValidateTags(tagList) ==
    IF tagList = <<>> THEN [tags |-> <<>>, bad |-> <<>>]
    ELSE LET tag == TrimSpace(Head(tagList))
             rest == ValidateTags(Tail(tagList))
         IN  IF tag = <<>> THEN rest
             ELSE IF ~tagRegexp(tag) THEN [tags |-> <<>>, bad |-> tag]
             ELSE IF rest.bad /= <<>> THEN rest
             ELSE [tags |-> <<tag>> \o rest.tags, bad |-> <<>>]

\* parseArtifactsToBackup, lines 329-380: [repository, tags, err, quoted];
\* quoted is the text the error message quotes
parseArtifactsToBackup(artifactRefs) ==
    LET failed(e, q) == [repository |-> <<>>, tags |-> <<>>, err |-> e, quoted |-> q]
        parsed(r, t) == [repository |-> r, tags |-> t, err |-> Nil, quoted |-> <<>>]
        lastSlash == LastIndexByte(artifactRefs, "/")
        lastColon == LastIndexByte(artifactRefs, ":")
        split == lastColon /= 0 /\ lastColon > lastSlash
        repoParts == IF split THEN SubSeq(artifactRefs, 1, lastColon - 1) ELSE artifactRefs
        tagsPart == IF split THEN SubSeq(artifactRefs, lastColon + 1, Len(artifactRefs))
                    ELSE <<>>
        parsedRepo == ParseReference(repoParts)
        checked == ValidateTags(Split(tagsPart, ","))
    IN  IF artifactRefs = <<>> THEN failed("ErrEmptyReference", <<>>)
        ELSE IF \E i \in 1..Len(artifactRefs) : artifactRefs[i] = "@"
             THEN failed("ErrDigestReference", artifactRefs)
        ELSE IF parsedRepo.err /= Nil THEN failed("ErrInvalidRepository", repoParts)
        ELSE IF tagsPart = <<>> THEN parsed(ReferenceString(parsedRepo), <<>>)
        ELSE IF checked.bad /= <<>> THEN failed("ErrInvalidTag", checked.bad)
        ELSE parsed(ReferenceString(parsedRepo), checked.tags)

outputFormatDir == "dir"
outputFormatTar == "tar"

BackupOptions ==
    {[cmd |-> "backup", recursive |-> FALSE, fromRef |-> "", toRef |-> "", extraRefs |-> <<>>,
      platform |-> "", src |-> RemoteTarget("r1", "repoA"), dst |-> LocalTarget,
      concurrency |-> DefaultConcurrency, includeReferrers |-> inc, tags |-> ts, outputFormat |-> fmt] :
        inc \in BOOLEAN,
        ts \in SeqsUpTo(DOMAIN SrcTags, MaxTags),
        fmt \in {outputFormatDir, outputFormatTar}}

NoArchive == [content |-> {}, tags |-> [r \in DstRefs |-> ""]]

NoOptions == [FindPredecessors |-> NilFindPredecessors, MountFrom |-> ""]

Init ==
    /\ store \in SourceStores
    /\ opts \in CopyOptions \cup BackupOptions
    /\ pc = IF opts.cmd = "cp" THEN "runCopy" ELSE "runBackup"
    /\ dstContent = {}
    /\ dstTags = [r \in DstRefs |-> ""]
    /\ desc = ZeroDescriptor
    /\ err = Nil
    /\ extendedCopyOptions = NoOptions
    /\ calleeOpts = NoOptions
    /\ tracking = "none"
    /\ calls = <<>>
    /\ srcOps = <<>>
    /\ reported = <<>>
    /\ tagNDesc = ""
    /\ pending = {}
    /\ tags = <<>>
    /\ tagIndex = 0
    /\ referrerCount = 0
    /\ fs = [tempDir |-> FALSE, tempTar |-> FALSE, ingest |-> FALSE, output |-> "untouched",
             tarState |-> "none", removeFailed |-> {}]
    /\ archive = NoArchive
    /\ args = <<>>
    /\ ret = <<>>

(***************************************************************************)
(* oras cp: runCopy, doCopy, recursiveCopy.                                *)
(***************************************************************************)
\* runCopy, lines 121-139: the source and destination targets are prepared
RunCopyPrepare ==
    /\ pc = "runCopy"
    /\ \E e \in {Nil, "ErrTarget"} :
          /\ err' = e
          /\ pc' = IF e = Nil THEN "doCopy" ELSE "done"
    /\ UNCHANGED <<store, opts, dstContent, dstTags, desc, extendedCopyOptions, calleeOpts,
                   tracking, calls, srcOps, reported, tagNDesc, pending>>
    /\ UNCHANGED <<backupVars, callVars>>

\* a variant of the mount hint that does not compare the registries
MountFromAnyRemote(src, dst) ==
    IF src.remote /\ dst.remote THEN src.repository ELSE ""

\* doCopy, lines 175-181: the mount hint, "" when MountFrom stays nil
MountFromFor(src, dst) ==
    IF src.remote /\ dst.remote /\ src.registry = dst.registry
    THEN src.repository
    ELSE ""

\* doCopy, lines 169-185: the copy options are prepared and tracking starts
DoCopyStart ==
    /\ pc = "doCopy"
    /\ extendedCopyOptions' = [FindPredecessors |-> ReferrersFindPredecessors,
                               MountFrom |-> MountFromFor(opts.src, opts.dst)]
    /\ \E e \in {Nil, "ErrStartTracking"} :
          /\ err' = e
          /\ tracking' = IF e = Nil THEN "open" ELSE tracking
          /\ pc' = IF e = Nil THEN "copy" ELSE "done"
    /\ UNCHANGED <<store, opts, dstContent, dstTags, desc, calleeOpts, calls, srcOps,
                   reported, tagNDesc, pending>>
    /\ UNCHANGED <<backupVars, callVars>>

\* a variant of the mode that looks at the destination reference first
CopyModeByReferenceFirst(recursive, toRef) ==
    IF toRef = "" THEN "A"
    ELSE IF recursive THEN "C"
    ELSE "B"

\* doCopy, lines 199-221: the mode of the copy
CopyMode(recursive, toRef) ==
    IF recursive THEN "C"
    ELSE IF toRef = "" THEN "A"
    ELSE "B"

\* doCopy, lines 199-203 and 206-210: the source reference is resolved
DoCopyResolve ==
    /\ pc = "copy"
    /\ CopyMode(opts.recursive, opts.toRef) \in {"A", "C"}
    /\ \E r \in SrcResolve(opts.fromRef, opts.platform) :
          /\ desc' = r.desc
          /\ err' = r.err
          /\ pc' = IF r.err /= Nil THEN "doCopyDefer"
                   ELSE IF CopyMode(opts.recursive, opts.toRef) = "C" THEN "recursiveCopy"
                   ELSE "copyGraph"
    /\ srcOps' = Append(srcOps, SrcOp("Resolve", opts.fromRef))
    /\ UNCHANGED <<store, opts, dstContent, dstTags, extendedCopyOptions, calleeOpts,
                   tracking, calls, reported, tagNDesc, pending>>
    /\ UNCHANGED <<backupVars, callVars>>

\* a variant of recursiveCopy's preparation that loses the mount hint
RecursiveCopyPrepareLosingMount ==
    /\ pc = "recursiveCopy"
    /\ \E r \in prepareCopyOption(desc, extendedCopyOptions.FindPredecessors) :
          /\ calleeOpts' = [FindPredecessors |-> r.opts, MountFrom |-> ""]
          /\ err' = r.err
          /\ srcOps' = srcOps \o r.ops
          /\ pc' = IF r.err = PanicNilFunc THEN "panicked"
                   ELSE IF r.err /= Nil THEN "doCopyDefer"
                   ELSE "extendedCopy"
    /\ UNCHANGED <<store, opts, dstContent, dstTags, desc, extendedCopyOptions, tracking,
                   calls, reported, tagNDesc, pending>>
    /\ UNCHANGED <<backupVars, callVars>>

\* recursiveCopy, lines 228-232: the options are prepared for the root
RecursiveCopyPrepare ==
    /\ pc = "recursiveCopy"
    /\ \E r \in prepareCopyOption(desc, extendedCopyOptions.FindPredecessors) :
          /\ calleeOpts' = [extendedCopyOptions EXCEPT !.FindPredecessors = r.opts]
          /\ err' = r.err
          /\ srcOps' = srcOps \o r.ops
          /\ pc' = IF r.err = PanicNilFunc THEN "panicked"
                   ELSE IF r.err /= Nil THEN "doCopyDefer"
                   ELSE "extendedCopy"
    /\ UNCHANGED <<store, opts, dstContent, dstTags, desc, extendedCopyOptions, tracking,
                   calls, reported, tagNDesc, pending>>
    /\ UNCHANGED <<backupVars, callVars>>

\* a variant that tags with every reference that is not empty
WithoutTagWhenEmpty(dstRef, root) == dstRef = ""

\* recursiveCopy, line 234: the destination is not tagged
WithoutTag(dstRef, root) == dstRef = "" \/ dstRef = root.digest

\* recursiveCopy, lines 234-239: the extended copy, with or without a tag
RecursiveCopyEngine ==
    /\ pc = "extendedCopy"
    /\ LET untagged == WithoutTag(opts.toRef, desc)
           fp == calleeOpts.FindPredecessors
       IN  /\ \E o \in IF untagged THEN ExtendedCopyGraph(desc, fp)
                       ELSE ExtendedCopy(desc.digest, opts.toRef, fp) :
                  /\ dstContent' = ContentAfter(o)
                  /\ dstTags' = TagsAfter(o)
                  /\ err' = o.err
           /\ calls' = Append(calls,
                              EngineCall(IF untagged THEN "ExtendedCopyGraph" ELSE "ExtendedCopy",
                                         desc.digest, IF untagged THEN "" ELSE opts.toRef,
                                         calleeOpts, TRUE))
    /\ pc' = "doCopyDefer"
    /\ UNCHANGED <<store, opts, desc, extendedCopyOptions, calleeOpts, tracking, srcOps,
                   reported, tagNDesc, pending>>
    /\ UNCHANGED <<backupVars, callVars>>

\* doCopy, line 211: the graph of the resolved root is copied
DoCopyGraph ==
    /\ pc = "copyGraph"
    /\ \E o \in CopyGraph(desc) :
          /\ dstContent' = ContentAfter(o)
          /\ err' = o.err
    /\ calls' = Append(calls, EngineCall("CopyGraph", desc.digest, "", extendedCopyOptions, FALSE))
    /\ pc' = "doCopyDefer"
    /\ UNCHANGED <<store, opts, dstTags, desc, extendedCopyOptions, calleeOpts, tracking,
                   srcOps, reported, tagNDesc, pending>>
    /\ UNCHANGED <<backupVars, callVars>>

\* doCopy, lines 213-219: resolve and copy by the reference pair
DoCopyByReference ==
    /\ pc = "copy"
    /\ CopyMode(opts.recursive, opts.toRef) = "B"
    /\ \E o \in Copy(opts.fromRef, opts.toRef, opts.platform) :
          /\ dstContent' = ContentAfter(o)
          /\ dstTags' = TagsAfter(o)
          /\ desc' = o.desc
          /\ err' = o.err
    /\ calls' = Append(calls, EngineCall("Copy", opts.fromRef, opts.toRef,
                                         extendedCopyOptions, FALSE))
    /\ pc' = "doCopyDefer"
    /\ UNCHANGED <<store, opts, extendedCopyOptions, calleeOpts, tracking, srcOps,
                   reported, tagNDesc, pending>>
    /\ UNCHANGED <<backupVars, callVars>>

\* a variant of the deferred function that always assigns StopTracking's error
DeferredStopError(primary, stopErr) == stopErr

\* doCopy, lines 186-191: what the deferred StopTracking leaves as doCopy's error
DeferredError(primary, stopErr) == IF primary = Nil THEN stopErr ELSE primary

\* doCopy, lines 186-191 and 223, runCopy, lines 141-144: tracking stops, doCopy returns
DoCopyReturn ==
    /\ pc = "doCopyDefer"
    /\ tracking' = "closed"
    /\ \E stopErr \in {Nil, "ErrStopTracking"} :
          /\ err' = DeferredError(err, stopErr)
          /\ pc' = IF err' /= Nil THEN "done" ELSE "onCopied"
    /\ UNCHANGED <<store, opts, dstContent, dstTags, desc, extendedCopyOptions, calleeOpts,
                   calls, srcOps, reported, tagNDesc, pending>>
    /\ UNCHANGED <<backupVars, callVars>>

Event(event, digest, ref, n) == [event |-> event, digest |-> digest, ref |-> ref, n |-> n]

\* runCopy, lines 146-149: the source reference the copied artifact is reported with
ReportedSource(from, d) == IF IsDigest(from) /\ from /= d.digest THEN d.digest ELSE from

\* a variant of runCopy that starts the fan-out without reporting the copied artifact
RunCopyWithoutOnCopied ==
    /\ pc = "onCopied"
    /\ err' = Nil
    /\ pc' = IF Len(opts.extraRefs) /= 0 THEN "tagN" ELSE "render"
    /\ UNCHANGED <<store, opts, dstContent, dstTags, desc, extendedCopyOptions, calleeOpts,
                   tracking, calls, srcOps, reported, tagNDesc, pending>>
    /\ UNCHANGED <<backupVars, callVars>>

\* runCopy, lines 146-162: the copied artifact is reported
RunCopyOnCopied ==
    /\ pc = "onCopied"
    /\ reported' = Append(reported, Event("OnCopied", desc.digest,
                                          ReportedSource(opts.fromRef, desc), 0))
    /\ \E e \in {Nil, "ErrOnCopied"} :
          /\ err' = e
          /\ pc' = IF e /= Nil THEN "done"
                   ELSE IF Len(opts.extraRefs) /= 0 THEN "tagN"
                   ELSE "render"
    /\ UNCHANGED <<store, opts, dstContent, dstTags, desc, extendedCopyOptions, calleeOpts,
                   tracking, calls, srcOps, tagNDesc, pending>>
    /\ UNCHANGED <<backupVars, callVars>>

\* runCopy, line 159, oras.TagN: the first destination reference is resolved
TagNResolve ==
    /\ pc = "tagN"
    /\ \E d \in {DstResolve(opts.toRef), ""} :
          /\ tagNDesc' = d
          /\ err' = IF d = "" THEN "ErrTagN" ELSE Nil
          /\ pc' = IF d = "" THEN "done" ELSE "tagging"
          /\ pending' = IF d = "" THEN {} ELSE 1..Len(opts.extraRefs)
    /\ UNCHANGED <<store, opts, dstContent, dstTags, desc, extendedCopyOptions, calleeOpts,
                   tracking, calls, srcOps, reported>>
    /\ UNCHANGED <<backupVars, callVars>>

\* oras.TagN with tagNOpts.Concurrency (runCopy, line 157): of the tag
\* operations not finished yet, the ones running at once: the first limit in
\* the order of the references
InFlight(S, limit) == {i \in S : Cardinality({j \in S : j < i}) < limit}

\* a variant of the fan-out that takes the extra tags back when one fails
TagNTagRollingBack ==
    /\ pc = "tagging"
    /\ pending /= {}
    /\ \E i \in InFlight(pending, opts.concurrency), e \in {Nil, "ErrTagN"} :
          /\ err' = e
          /\ dstTags' = IF e = Nil THEN [dstTags EXCEPT ![opts.extraRefs[i]] = tagNDesc]
                        ELSE [r \in DstRefs |-> IF r \in ExtraTagNames THEN "" ELSE dstTags[r]]
          /\ reported' = IF e = Nil
                         THEN Append(reported, Event("OnTagged", tagNDesc, opts.extraRefs[i], 0))
                         ELSE reported
          /\ pending' = pending \ {i}
          /\ pc' = IF e /= Nil THEN "done"
                   ELSE IF pending' = {} THEN "render"
                   ELSE "tagging"
    /\ UNCHANGED <<store, opts, dstContent, desc, extendedCopyOptions, calleeOpts, tracking,
                   calls, srcOps, tagNDesc>>
    /\ UNCHANGED <<backupVars, callVars>>

\* oras.TagN: one extra reference is tagged and reported, or fails
TagNTag ==
    /\ pc = "tagging"
    /\ pending /= {}
    /\ \E i \in InFlight(pending, opts.concurrency), e \in {Nil, "ErrTagN"} :
          /\ err' = e
          /\ dstTags' = IF e = Nil THEN [dstTags EXCEPT ![opts.extraRefs[i]] = tagNDesc]
                        ELSE dstTags
          /\ reported' = IF e = Nil
                         THEN Append(reported, Event("OnTagged", tagNDesc, opts.extraRefs[i], 0))
                         ELSE reported
          /\ pending' = pending \ {i}
          /\ pc' = IF e /= Nil THEN "done"
                   ELSE IF pending' = {} THEN "render"
                   ELSE "tagging"
    /\ UNCHANGED <<store, opts, dstContent, desc, extendedCopyOptions, calleeOpts, tracking,
                   calls, srcOps, tagNDesc>>
    /\ UNCHANGED <<backupVars, callVars>>

\* runCopy, line 164: the result is rendered
RunCopyRender ==
    /\ pc = "render"
    /\ \E e \in {Nil, "ErrRender"} : err' = e
    /\ reported' = Append(reported, Event("Render", "", "", 0))
    /\ pc' = "done"
    /\ UNCHANGED <<store, opts, dstContent, dstTags, desc, extendedCopyOptions, calleeOpts,
                   tracking, calls, srcOps, tagNDesc, pending>>
    /\ UNCHANGED <<backupVars, callVars>>

(***************************************************************************)
(* oras backup: runBackup, backupTag, prepareBackupOutput.                 *)
(***************************************************************************)
\* runBackup, lines 137-166: the staging directory, the source and the OCI store
RunBackupPrepare ==
    /\ pc = "runBackup"
    /\ \E e \in {Nil, "ErrRepository", "ErrOCIStore"}
               \cup (IF opts.outputFormat = outputFormatTar THEN {"ErrMkdirTemp"} ELSE {}) :
          /\ err' = e
          /\ fs' = [fs EXCEPT
                      !.tempDir = opts.outputFormat = outputFormatTar /\ e /= "ErrMkdirTemp",
                      !.output = IF opts.outputFormat = outputFormatDir /\ e = Nil
                                 THEN "layout" ELSE @]
          /\ pc' = IF e = Nil THEN "findTags"
                   ELSE IF e = "ErrMkdirTemp" THEN "done"
                   ELSE "bReturn"
    /\ UNCHANGED <<store, opts, dstContent, dstTags, desc, extendedCopyOptions, calleeOpts,
                   tracking, calls, srcOps, reported, tags, tagIndex, referrerCount, archive>>
    /\ UNCHANGED <<copyVars, callVars>>

\* a variant of findTagsToBackup that drops the tags given more than once
findTagsDeduplicated(given) ==
    {[tags |-> SelectSeq([i \in 1..Len(given) |-> IF \E j \in 1..(i - 1) : given[j] = given[i]
                                                  THEN "" ELSE given[i]],
                         LAMBDA t : t /= ""),
      err |-> Nil, ops |-> <<>>]}

\* findTagsToBackup, lines 320-327: the outcomes [tags, err, ops]
findTagsToBackup(given) ==
    IF Len(given) > 0 THEN {[tags |-> given, err |-> Nil, ops |-> <<>>]}
    ELSE {[tags |-> found, err |-> Nil, ops |-> <<SrcOp("Tags", "")>>] :
             found \in {<<>>, <<"v1", "v2">>}}
         \cup {[tags |-> <<>>, err |-> "ErrTags", ops |-> <<SrcOp("Tags", "")>>]}

\* a variant of the check of the tags found that takes an empty list as it is
TagsErrorAllowingNone(r, onFound) ==
    IF r.err /= Nil THEN r.err ELSE onFound

\* runBackup, lines 169-182: the error after the tags were looked up; r is the
\* outcome of findTagsToBackup, onFound what OnTagsFound returns
TagsError(r, onFound) ==
    IF r.err /= Nil THEN r.err
    ELSE IF Len(r.tags) = 0 THEN "ErrNoTagsFound"
    ELSE onFound

\* runBackup, lines 174-178: the recommendation an error carries
Recommendation(e) ==
    IF e = "ErrNoTagsFound" THEN "oras repo tags" ELSE ""

\* runBackup, lines 168-197: the tags are found and the copy options prepared
BackupFindTags ==
    /\ pc = "findTags"
    /\ \E r \in findTagsToBackup(opts.tags), onFound \in {Nil, "ErrOnTagsFound"} :
          /\ tags' = r.tags
          /\ srcOps' = srcOps \o r.ops
          /\ err' = TagsError(r, onFound)
          /\ reported' = IF r.err = Nil /\ Len(r.tags) /= 0
                         THEN Append(reported, Event("OnTagsFound", "", "", Len(r.tags)))
                         ELSE reported
          /\ pc' = IF err' /= Nil THEN "bReturn"
                   ELSE IF Len(r.tags) = 0 THEN "bOutput"
                   ELSE "bStartTracking"
          /\ tagIndex' = IF err' = Nil /\ Len(r.tags) /= 0 THEN 1 ELSE tagIndex
          /\ extendedCopyOptions' = IF err' = Nil
                                    THEN [FindPredecessors |-> NilFindPredecessors,
                                          MountFrom |-> ""]
                                    ELSE extendedCopyOptions
    /\ UNCHANGED <<store, opts, dstContent, dstTags, desc, calleeOpts, tracking, calls,
                   referrerCount, fs, archive>>
    /\ UNCHANGED <<copyVars, callVars>>

\* runBackup, lines 199-204 and 212: tracking starts for the tag, backupTag is called
BackupStartTracking ==
    /\ pc = "bStartTracking"
    /\ \E e \in {Nil, "ErrStartTracking"} :
          /\ err' = e
          /\ tracking' = IF e = Nil THEN "open" ELSE tracking
          /\ pc' = IF e /= Nil THEN "bReturn"
                   ELSE IF opts.includeReferrers THEN "bResolve"
                   ELSE "bCopy"
    /\ calleeOpts' = extendedCopyOptions
    /\ desc' = ZeroDescriptor
    /\ referrerCount' = 0
    /\ UNCHANGED <<store, opts, dstContent, dstTags, extendedCopyOptions, calls, srcOps,
                   reported, tags, tagIndex, fs, archive>>
    /\ UNCHANGED <<copyVars, callVars>>

\* a variant of the copy of a tag that leaves the destination untagged
BackupTagCopyUntagged ==
    /\ pc = "bCopy"
    /\ \E o \in Copy(tags[tagIndex], "", "") :
          /\ dstContent' = ContentAfter(o)
          /\ dstTags' = TagsAfter(o)
          /\ err' = o.err
          /\ fs' = [fs EXCEPT !.ingest = @ \/ o.added /= {}]
    /\ calls' = Append(calls, EngineCall("Copy", tags[tagIndex], tags[tagIndex],
                                         calleeOpts, FALSE))
    /\ pc' = "bStopTracking"
    /\ UNCHANGED <<store, opts, desc, extendedCopyOptions, calleeOpts, tracking, srcOps,
                   reported, tags, tagIndex, referrerCount, archive>>
    /\ UNCHANGED <<copyVars, callVars>>

\* backupTag, lines 235-241: the tag is copied without its referrers
BackupTagCopy ==
    /\ pc = "bCopy"
    /\ \E o \in Copy(tags[tagIndex], tags[tagIndex], "") :
          /\ dstContent' = ContentAfter(o)
          /\ dstTags' = TagsAfter(o)
          /\ err' = o.err
          /\ fs' = [fs EXCEPT !.ingest = @ \/ o.added /= {}]
    /\ calls' = Append(calls, EngineCall("Copy", tags[tagIndex], tags[tagIndex],
                                         calleeOpts, FALSE))
    /\ pc' = "bStopTracking"
    /\ UNCHANGED <<store, opts, desc, extendedCopyOptions, calleeOpts, tracking, srcOps,
                   reported, tags, tagIndex, referrerCount, archive>>
    /\ UNCHANGED <<copyVars, callVars>>

\* backupTag, lines 244-247: the tag is resolved at the source
BackupTagResolve ==
    /\ pc = "bResolve"
    /\ \E r \in SrcResolve(tags[tagIndex], "") :
          /\ desc' = r.desc
          /\ err' = r.err
          /\ pc' = IF r.err /= Nil THEN "bStopTracking" ELSE "bPrepare"
    /\ srcOps' = Append(srcOps, SrcOp("Resolve", tags[tagIndex]))
    /\ UNCHANGED <<store, opts, dstContent, dstTags, extendedCopyOptions, calleeOpts,
                   tracking, calls, reported, tags, tagIndex, referrerCount, fs, archive>>
    /\ UNCHANGED <<copyVars, callVars>>

\* backupTag, lines 248-251: the options are prepared for the root
BackupTagPrepare ==
    /\ pc = "bPrepare"
    /\ \E r \in prepareCopyOption(desc, calleeOpts.FindPredecessors) :
          /\ calleeOpts' = [calleeOpts EXCEPT !.FindPredecessors = r.opts]
          /\ err' = r.err
          /\ srcOps' = srcOps \o r.ops
          /\ pc' = IF r.err /= Nil THEN "bStopTracking" ELSE "bExtendedCopy"
    /\ UNCHANGED <<store, opts, dstContent, dstTags, desc, extendedCopyOptions, tracking,
                   calls, reported, tags, tagIndex, referrerCount, fs, archive>>
    /\ UNCHANGED <<copyVars, callVars>>

\* backupTag, lines 252-255: the extended copy, tagging the destination
BackupTagExtendedCopy ==
    /\ pc = "bExtendedCopy"
    /\ \E o \in ExtendedCopy(desc.digest, tags[tagIndex], calleeOpts.FindPredecessors) :
          /\ dstContent' = ContentAfter(o)
          /\ dstTags' = TagsAfter(o)
          /\ err' = o.err
          /\ fs' = [fs EXCEPT !.ingest = @ \/ o.added /= {}]
          /\ pc' = IF o.err /= Nil THEN "bStopTracking" ELSE "bReferrers"
    /\ calls' = Append(calls, EngineCall("ExtendedCopy", desc.digest, tags[tagIndex],
                                         calleeOpts, TRUE))
    /\ UNCHANGED <<store, opts, desc, extendedCopyOptions, calleeOpts, tracking, srcOps,
                   reported, tags, tagIndex, referrerCount, archive>>
    /\ UNCHANGED <<copyVars, callVars>>

\* backupTag, lines 256-260: the referrers of the root are counted at the destination
BackupTagReferrers ==
    /\ pc = "bReferrers"
    /\ \E e \in {Nil, "ErrDstReferrers"} :
          /\ err' = e
          /\ referrerCount' = IF e = Nil THEN Len(DstReferrers(desc)) ELSE 0
    /\ pc' = "bStopTracking"
    /\ UNCHANGED <<store, opts, dstContent, dstTags, desc, extendedCopyOptions, calleeOpts,
                   tracking, calls, srcOps, reported, tags, tagIndex, fs, archive>>
    /\ UNCHANGED <<copyVars, callVars>>

\* a variant of the deferred function that always assigns StopTracking's error
TagStepStopError(retErr, stopErr) == stopErr

\* runBackup, lines 205-210: what the deferred StopTracking leaves as the tag's error
TagStepError(retErr, stopErr) == IF retErr = Nil THEN stopErr ELSE retErr

\* a variant of the loop of runBackup that goes on after a tag's step failed
BackupStopTrackingGoingOn ==
    /\ pc = "bStopTracking"
    /\ tracking' = "closed"
    /\ \E stopErr \in {Nil, "ErrStopTracking"} : err' = TagStepError(err, stopErr)
    /\ pc' = "bPulled"
    /\ UNCHANGED <<store, opts, dstContent, dstTags, desc, extendedCopyOptions, calleeOpts,
                   calls, srcOps, reported, tags, tagIndex, referrerCount, fs, archive>>
    /\ UNCHANGED <<copyVars, callVars>>

\* a variant of the tag's step that stops tracking only after a copy that succeeded
BackupStopTrackingOnSuccess ==
    /\ pc = "bStopTracking"
    /\ tracking' = IF err = Nil THEN "closed" ELSE tracking
    /\ \E stopErr \in {Nil, "ErrStopTracking"} :
          /\ err' = TagStepError(err, stopErr)
          /\ pc' = IF err' /= Nil THEN "bReturn" ELSE "bPulled"
    /\ UNCHANGED <<store, opts, dstContent, dstTags, desc, extendedCopyOptions, calleeOpts,
                   calls, srcOps, reported, tags, tagIndex, referrerCount, fs, archive>>
    /\ UNCHANGED <<copyVars, callVars>>

\* runBackup, lines 205-216: tracking stops, the tag's step returns
BackupStopTracking ==
    /\ pc = "bStopTracking"
    /\ tracking' = "closed"
    /\ \E stopErr \in {Nil, "ErrStopTracking"} :
          /\ err' = TagStepError(err, stopErr)
          /\ pc' = IF err' /= Nil THEN "bReturn" ELSE "bPulled"
    /\ UNCHANGED <<store, opts, dstContent, dstTags, desc, extendedCopyOptions, calleeOpts,
                   calls, srcOps, reported, tags, tagIndex, referrerCount, fs, archive>>
    /\ UNCHANGED <<copyVars, callVars>>

\* runBackup, lines 217-220: the tag is reported, the loop goes on
BackupOnArtifactPulled ==
    /\ pc = "bPulled"
    /\ reported' = Append(reported, Event("OnArtifactPulled", "", tags[tagIndex], referrerCount))
    /\ \E e \in {Nil, "ErrOnArtifactPulled"} :
          /\ err' = e
          /\ pc' = IF e /= Nil THEN "bReturn"
                   ELSE IF tagIndex < Len(tags) THEN "bStartTracking"
                   ELSE "bOutput"
          /\ tagIndex' = IF e = Nil /\ tagIndex < Len(tags) THEN tagIndex + 1 ELSE tagIndex
    /\ UNCHANGED <<store, opts, dstContent, dstTags, desc, extendedCopyOptions, calleeOpts,
                   tracking, calls, srcOps, tags, referrerCount, fs, archive>>
    /\ UNCHANGED <<copyVars, callVars>>

\* prepareBackupOutput, lines 263-284: the ingest directory goes, the temporary
\* archive file is created
BackupOutputStart ==
    /\ pc = "bOutput"
    /\ \E removed \in BOOLEAN,
          e \in IF opts.outputFormat /= outputFormatTar THEN {Nil}
                ELSE {Nil, "ErrOnTarExporting", "ErrCreateTemp"} :
          /\ err' = e
          /\ fs' = [fs EXCEPT !.ingest = @ /\ ~removed,
                              !.tempTar = opts.outputFormat = outputFormatTar /\ e = Nil]
          /\ reported' = IF opts.outputFormat = outputFormatTar
                         THEN Append(reported, Event("OnTarExporting", "", "", 0))
                         ELSE reported
          /\ pc' = IF e /= Nil THEN "bReturn"
                   ELSE IF opts.outputFormat /= outputFormatTar THEN "bCompleted"
                   ELSE "bSerialize"
    /\ UNCHANGED <<store, opts, dstContent, dstTags, desc, extendedCopyOptions, calleeOpts,
                   tracking, calls, srcOps, tags, tagIndex, referrerCount, archive>>
    /\ UNCHANGED <<copyVars, callVars>>

\* prepareBackupOutput, lines 285-290: what the temporary file holds after
\* TarDirectory and Close, by the error of the step
TarStateAfter(e) ==
    IF e = "ErrTarDirectory" THEN "partial"
    ELSE IF e = "ErrClose" THEN "unclosed"
    ELSE "complete"

\* a variant of prepareBackupOutput that moves the temporary file whatever
\* TarDirectory and Close returned
BackupOutputSerializeGoingOn ==
    /\ pc = "bSerialize"
    /\ \E e \in {Nil, "ErrTarDirectory", "ErrClose", "ErrAbs", "ErrMkdirAll"} :
          /\ err' = e
          /\ fs' = [fs EXCEPT !.tarState = TarStateAfter(e)]
    /\ pc' = "bMove"
    /\ UNCHANGED <<store, opts, dstContent, dstTags, desc, extendedCopyOptions, calleeOpts,
                   tracking, calls, srcOps, reported, tags, tagIndex, referrerCount, archive>>
    /\ UNCHANGED <<copyVars, callVars>>

\* prepareBackupOutput, lines 285-302: the archive is written and closed, the
\* output's directory made
BackupOutputSerialize ==
    /\ pc = "bSerialize"
    /\ \E e \in {Nil, "ErrTarDirectory", "ErrClose", "ErrAbs", "ErrMkdirAll"} :
          /\ err' = e
          /\ fs' = [fs EXCEPT !.tarState = TarStateAfter(e)]
          /\ pc' = IF e /= Nil THEN "bReturn" ELSE "bMove"
    /\ UNCHANGED <<store, opts, dstContent, dstTags, desc, extendedCopyOptions, calleeOpts,
                   tracking, calls, srcOps, reported, tags, tagIndex, referrerCount, archive>>
    /\ UNCHANGED <<copyVars, callVars>>

\* prepareBackupOutput, lines 304-317: the temporary archive moves into place
BackupOutputMove ==
    /\ pc = "bMove"
    /\ \E e \in {Nil, "ErrRename", "ErrStat", "ErrOnTarExported"}, removed \in BOOLEAN :
          /\ err' = e
          /\ fs' = [fs EXCEPT !.tempTar = e = "ErrRename" /\ ~removed,
                              !.output = IF e = "ErrRename" THEN @
                                         ELSE IF fs.tarState = "complete" THEN "archive"
                                         ELSE "partial",
                              !.removeFailed = IF e = "ErrRename" /\ ~removed
                                               THEN @ \cup {"tempTar"} ELSE @]
          /\ archive' = IF e = "ErrRename" \/ fs.tarState /= "complete" THEN archive
                        ELSE [content |-> dstContent, tags |-> dstTags]
          /\ reported' = IF e \in {Nil, "ErrOnTarExported"}
                         THEN Append(reported, Event("OnTarExported", "", "", 0))
                         ELSE reported
          /\ pc' = IF e /= Nil THEN "bReturn" ELSE "bCompleted"
    /\ UNCHANGED <<store, opts, dstContent, dstTags, desc, extendedCopyOptions, calleeOpts,
                   tracking, calls, srcOps, tags, tagIndex, referrerCount>>
    /\ UNCHANGED <<copyVars, callVars>>

\* runBackup, line 225: completion is reported
BackupCompleted ==
    /\ pc = "bCompleted"
    /\ reported' = Append(reported, Event("OnBackupCompleted", "", "", Len(tags)))
    /\ \E e \in {Nil, "ErrOnBackupCompleted"} : err' = e
    /\ pc' = "bReturn"
    /\ UNCHANGED <<store, opts, dstContent, dstTags, desc, extendedCopyOptions, calleeOpts,
                   tracking, calls, srcOps, tags, tagIndex, referrerCount, fs, archive>>
    /\ UNCHANGED <<copyVars, callVars>>

\* runBackup, lines 146-150: the deferred removal of the staging directory; runBackup returns
BackupReturn ==
    /\ pc = "bReturn"
    /\ \E removed \in BOOLEAN :
          fs' = [fs EXCEPT !.tempDir = @ /\ ~removed,
                           !.removeFailed = IF fs.tempDir /\ ~removed
                                            THEN @ \cup {"tempDir"} ELSE @]
    /\ pc' = IF err = PanicNilFunc THEN "panicked" ELSE "done"
    /\ UNCHANGED <<store, opts, dstContent, dstTags, desc, err, extendedCopyOptions,
                   calleeOpts, tracking, calls, srcOps, reported, tags, tagIndex,
                   referrerCount, archive>>
    /\ UNCHANGED <<copyVars, callVars>>

Next ==
    \/ RunCopyPrepare
    \/ DoCopyStart
    \/ DoCopyResolve
    \/ RecursiveCopyPrepare
    \/ RecursiveCopyEngine
    \/ DoCopyGraph
    \/ DoCopyByReference
    \/ DoCopyReturn
    \/ RunCopyOnCopied
    \/ TagNResolve
    \/ TagNTag
    \/ RunCopyRender
    \/ RunBackupPrepare
    \/ BackupFindTags
    \/ BackupStartTracking
    \/ BackupTagCopy
    \/ BackupTagResolve
    \/ BackupTagPrepare
    \/ BackupTagExtendedCopy
    \/ BackupTagReferrers
    \/ BackupStopTracking
    \/ BackupOnArtifactPulled
    \/ BackupOutputStart
    \/ BackupOutputSerialize
    \/ BackupOutputMove
    \/ BackupCompleted
    \/ BackupReturn

Spec == Init /\ [][Next]_vars

(***************************************************************************)
(* oras backup from its command line: PreRunE parses the argument, RunE    *)
(* runs runBackup.                                                         *)
(***************************************************************************)
\* the repository the backups are taken from
RepositoryRef == <<"r", "1", "/", "r", "e", "p", "o">>

\* the entries of a tag list: tags of the repository (one with white space
\* around it), empty entries, tags tagRegexp does not match, and the longest
\* tag and one a character longer
TagEntries ==
    {<<"v", "1">>,
     <<" ", "v", "2", "\t">>,
     <<>>,
     <<" ">>,
     <<".", "v", "1">>,
     <<"v", " ", "1">>,
     Repeat("a", TagTailMax + 1),
     Repeat("a", TagTailMax + 2)}

\* strings.Join(elems, sep)
RECURSIVE Join(_, _)
Join(elems, sep) ==
    IF elems = <<>> THEN <<>>
    ELSE IF Len(elems) = 1 THEN elems[1]
    ELSE elems[1] \o sep \o Join(Tail(elems), sep)

\* the references oras backup is called with
ArtifactRefs ==
    {RepositoryRef \o <<":">> \o Join(es, <<",">>) :
        es \in SeqsUpTo(TagEntries, MaxTags) \ {<<>>}}
    \cup {<<>>,
          RepositoryRef,
          <<"r", ":", "5", "/", "a">>,
          <<"r", ":", "5", "/", "a", ":", "v", "1">>,
          RepositoryRef \o <<":", "v", "1", ":", "v", "2">>,
          RepositoryRef \o <<"@", "v", "1">>,
          RepositoryRef \o <<":", "v", "1", "@", "v", "2">>,
          <<"r", "1", "/", "R", "e", "p", "o", ":", "v", "1">>,
          <<"r", "e", "p", "o", ":", "v", "1">>,
          RepositoryRef \o <<":", "v", "/", "1">>}

\* the values of the output flag
OutputPaths == {<<"o", "u", "t">>, <<"o", "u", "t", ".", "t", "a", "r">>}

\* the options of backupCmd before PreRunE: the flags are set, the derived
\* options have their zero values
BackupFlags ==
    {[cmd |-> "backup", recursive |-> FALSE, fromRef |-> "", toRef |-> "", extraRefs |-> <<>>,
      platform |-> "", src |-> LocalTarget, dst |-> LocalTarget,
      concurrency |-> DefaultConcurrency, includeReferrers |-> inc, tags |-> <<>>,
      outputFormat |-> outputFormatDir, output |-> out, repository |-> <<>>] :
        inc \in BOOLEAN,
        out \in OutputPaths}

\* the source stores of the backups: a plain manifest and an index with
\* manifests as the root
BackupStores ==
    {s \in SourceStores :
        /\ s.subject["aaa"] = NoSubject
        /\ s.subject["ddd"] = "aaa"
        /\ s.subject["eee"] = "bbb"
        /\ \/ s.mediaType[RootDigest] = MediaTypeImageManifest
           \/ Len(s.manifests[RootDigest]) = 2}

BackupInit ==
    /\ store \in BackupStores
    /\ opts \in BackupFlags
    /\ args \in ArtifactRefs
    /\ pc = "preRun"
    /\ dstContent = {}
    /\ dstTags = [r \in DstRefs |-> ""]
    /\ desc = ZeroDescriptor
    /\ err = Nil
    /\ extendedCopyOptions = NoOptions
    /\ calleeOpts = NoOptions
    /\ tracking = "none"
    /\ calls = <<>>
    /\ srcOps = <<>>
    /\ reported = <<>>
    /\ tagNDesc = ""
    /\ pending = {}
    /\ tags = <<>>
    /\ tagIndex = 0
    /\ referrerCount = 0
    /\ fs = [tempDir |-> FALSE, tempTar |-> FALSE, ingest |-> FALSE, output |-> "untouched",
             tarState |-> "none", removeFailed |-> {}]
    /\ archive = NoArchive
    /\ ret = <<>>

\* a variant of PreRunE that goes on to RunE whatever the parse returned
BackupPreRunGoingOn ==
    /\ pc = "preRun"
    /\ LET p == parseArtifactsToBackup(args)
       IN  /\ ret' = p
           /\ err' = p.err
           /\ opts' = [opts EXCEPT !.repository = p.repository,
                                   !.tags = [i \in 1..Len(p.tags) |-> Str(p.tags[i])]]
           /\ pc' = "runBackup"
    /\ UNCHANGED <<store, dstContent, dstTags, desc, extendedCopyOptions, calleeOpts,
                   tracking, calls, srcOps, reported, args>>
    /\ UNCHANGED <<backupVars, copyVars>>

\* PreRunE of backupCmd, lines 98-121: the options and the reference are
\* parsed, the output format is taken from the output path; RunE follows only
\* when PreRunE returned no error
BackupPreRun ==
    /\ pc = "preRun"
    /\ \E e \in {Nil, "ErrOptionParse"} :
          LET p == parseArtifactsToBackup(args)
              ref == ParseReference(p.repository)
          IN  /\ ret' = IF e /= Nil THEN ret ELSE p
              /\ err' = IF e /= Nil THEN e ELSE p.err
              /\ opts' = IF err' /= Nil THEN opts
                         ELSE [opts EXCEPT
                                 !.repository = p.repository,
                                 !.tags = [i \in 1..Len(p.tags) |-> Str(p.tags[i])],
                                 !.src = RemoteTarget(Str(ref.registry), Str(ref.repository)),
                                 !.outputFormat =
                                     IF HasSuffix(opts.output, <<".", "t", "a", "r">>)
                                     THEN outputFormatTar ELSE outputFormatDir]
              /\ pc' = IF err' /= Nil THEN "done" ELSE "runBackup"
    /\ UNCHANGED <<store, dstContent, dstTags, desc, extendedCopyOptions, calleeOpts,
                   tracking, calls, srcOps, reported, args>>
    /\ UNCHANGED <<backupVars, copyVars>>

BackupNext ==
    \/ BackupPreRun
    \/ RunBackupPrepare
    \/ BackupFindTags
    \/ BackupStartTracking
    \/ BackupTagCopy
    \/ BackupTagResolve
    \/ BackupTagPrepare
    \/ BackupTagExtendedCopy
    \/ BackupTagReferrers
    \/ BackupStopTracking
    \/ BackupOnArtifactPulled
    \/ BackupOutputStart
    \/ BackupOutputSerialize
    \/ BackupOutputMove
    \/ BackupCompleted
    \/ BackupReturn

BackupSpec == BackupInit /\ [][BackupNext]_vars

(***************************************************************************)
(* The error values and the functions of the command line that rewrite     *)
(* them.  An error is nil, a plain error, an error wrapping another one    *)
(* (fmt.Errorf with %w), a CopyError of the engine or an Error of the      *)
(* command line.                                                           *)
(***************************************************************************)
NilError == [kind |-> "nil"]
NewError(msg) == [kind |-> "errorString", msg |-> msg]
WrapError(e) == [kind |-> "wrapError", err |-> e]
CopyError(origin, e) == [kind |-> "CopyError", origin |-> origin, err |-> e]
CliError(e) ==
    [kind |-> "Error", operationType |-> "ParseArtifactReference", usage |-> "test usage",
     recommendation |-> "test recommendation", err |-> e]

CopyErrorOriginSource == "source"
CopyErrorOriginDestination == "destination"
\* CopyErrorOrigin(-1)
CopyErrorOriginUnknown == "unknown"
CopyErrorOrigins ==
    {CopyErrorOriginSource, CopyErrorOriginDestination, CopyErrorOriginUnknown}

\* how many errors an error value may wrap, one in the other
MaxWrapDepth == 3

RECURSIVE ErrorsOfDepth(_)
ErrorsOfDepth(n) ==
    IF n = 0 THEN {NewError("regular error"), NewError("inner error")}
    ELSE LET inner == ErrorsOfDepth(n - 1)
         IN  inner
             \cup {WrapError(e) : e \in inner}
             \cup {CopyError(o, e) : o \in CopyErrorOrigins, e \in inner}
             \cup {CliError(e) : e \in inner}

\* the errors of TestReWrapCopyError, lines 155-190
regularErr == NewError("regular error")
innerErr == NewError("inner error")
copyErr == CopyError(CopyErrorOriginSource, innerErr)
cliErrWithCopyErr == CliError(copyErr)
cliErrWithoutCopyErr == CliError(regularErr)
errWrappingCopyErr == WrapError(copyErr)
errWrappingCliErrWithCopyErr == WrapError(cliErrWithCopyErr)
errWrappingCliErrWithoutCopyErr == WrapError(cliErrWithoutCopyErr)

\* the table of TestReWrapCopyError, lines 192-262: input, wanted bool, wanted error
ReWrapTests ==
    {[inputErr |-> NilError, wantBool |-> FALSE, wantErr |-> NilError],
     [inputErr |-> regularErr, wantBool |-> FALSE, wantErr |-> regularErr],
     [inputErr |-> cliErrWithoutCopyErr, wantBool |-> FALSE, wantErr |-> cliErrWithoutCopyErr],
     [inputErr |-> cliErrWithCopyErr, wantBool |-> TRUE, wantErr |-> CliError(innerErr)],
     [inputErr |-> errWrappingCopyErr, wantBool |-> FALSE, wantErr |-> errWrappingCopyErr],
     [inputErr |-> errWrappingCliErrWithCopyErr, wantBool |-> FALSE,
      wantErr |-> errWrappingCliErrWithCopyErr],
     [inputErr |-> errWrappingCliErrWithoutCopyErr, wantBool |-> FALSE,
      wantErr |-> errWrappingCliErrWithoutCopyErr]}

\* errors.As(e, &copyErr): the first CopyError in the chain of e, or nil
RECURSIVE AsCopyError(_)
AsCopyError(e) ==
    IF e.kind = "CopyError" THEN e
    ELSE IF e.kind \in {"wrapError", "Error"} THEN AsCopyError(e.err)
    ELSE NilError

\* a variant of ReWrapCopyError that looks for the CopyError along the chain
ReWrapCopyErrorAs(e) ==
    IF e.kind = "Error" /\ AsCopyError(e).kind = "CopyError"
    THEN [err |-> [e EXCEPT !.err = AsCopyError(e).err], ok |-> TRUE]
    ELSE [err |-> e, ok |-> FALSE]

\* ReWrapCopyError(err): (error, bool); an Error whose Err is a CopyError
\* gets the error inside the CopyError as its Err
ReWrapCopyError(e) ==
    IF e.kind = "Error" /\ e.err.kind = "CopyError"
    THEN [err |-> [e EXCEPT !.err = e.err.err], ok |-> TRUE]
    ELSE [err |-> e, ok |-> FALSE]

\* the targets of TestBinaryTarget_ModifyError, lines 128-137, and a pair of
\* registries
BinaryTargets ==
    {[From |-> [Type |-> "registry", RawReference |-> "localhost:5000/test:v1"],
      To   |-> [Type |-> "oci-layout", RawReference |-> "oci-dir:v1"]],
     [From |-> [Type |-> "registry", RawReference |-> "r1/repoA:v1"],
      To   |-> [Type |-> "registry", RawReference |-> "r2/repoA:v1"]]}

\* the error prefix of a command: "Error:", or "Error from <side> <type> for <reference>:"
DefaultErrPrefix == [side |-> "", type |-> "", reference |-> ""]
ErrPrefix(side, target) ==
    [side |-> side, type |-> target.Type, reference |-> target.RawReference]

\* the table of TestBinaryTarget_ModifyError, lines 126-196: err, wanted
\* modified, wanted prefix, wanted error
ModifyErrorTests ==
    LET target == [From |-> [Type |-> "registry", RawReference |-> "localhost:5000/test:v1"],
                   To   |-> [Type |-> "oci-layout", RawReference |-> "oci-dir:v1"]]
        sourceErr == NewError("source error")
        destErr == NewError("destination error")
        unknownErr == NewError("unknown error")
    IN  {[target |-> target, err |-> CopyError(CopyErrorOriginSource, sourceErr),
          wantModified |-> TRUE, wantPrefix |-> ErrPrefix("source", target.From),
          wantErr |-> sourceErr],
         [target |-> target, err |-> CopyError(CopyErrorOriginDestination, destErr),
          wantModified |-> TRUE, wantPrefix |-> ErrPrefix("destination", target.To),
          wantErr |-> destErr],
         [target |-> target, err |-> CopyError(CopyErrorOriginUnknown, unknownErr),
          wantModified |-> TRUE, wantPrefix |-> DefaultErrPrefix, wantErr |-> unknownErr],
         [target |-> target, err |-> WrapError(CopyError(CopyErrorOriginSource, sourceErr)),
          wantModified |-> FALSE, wantPrefix |-> DefaultErrPrefix,
          wantErr |-> WrapError(CopyError(CopyErrorOriginSource, sourceErr))]}

\* the error values the functions are called with
ErrorValues ==
    {NilError} \cup ErrorsOfDepth(MaxWrapDepth) \cup {t.err : t \in ModifyErrorTests}

\* a variant of ModifyError that looks for the CopyError along the chain
ModifyErrorAs(target, e) ==
    LET c == AsCopyError(e)
    IN  IF c.kind /= "CopyError"
        THEN [err |-> e, modified |-> FALSE, prefix |-> DefaultErrPrefix]
        ELSE [err |-> c.err, modified |-> TRUE,
              prefix |-> IF c.origin = CopyErrorOriginSource
                         THEN ErrPrefix("source", target.From)
                         ELSE IF c.origin = CopyErrorOriginDestination
                         THEN ErrPrefix("destination", target.To)
                         ELSE DefaultErrPrefix]

\* a variant of ModifyError that names the source side for every origin
ModifyErrorSourceOnly(target, e) ==
    IF e.kind /= "CopyError"
    THEN [err |-> e, modified |-> FALSE, prefix |-> DefaultErrPrefix]
    ELSE [err |-> e.err, modified |-> TRUE, prefix |-> ErrPrefix("source", target.From)]

\* BinaryTarget.ModifyError(cmd, err): (error, modified) and the error prefix
\* the command has afterwards
ModifyError(target, e) ==
    IF e.kind /= "CopyError"
    THEN [err |-> e, modified |-> FALSE, prefix |-> DefaultErrPrefix]
    ELSE [err |-> e.err, modified |-> TRUE,
          prefix |-> IF e.origin = CopyErrorOriginSource
                     THEN ErrPrefix("source", target.From)
                     ELSE IF e.origin = CopyErrorOriginDestination
                     THEN ErrPrefix("destination", target.To)
                     ELSE DefaultErrPrefix]

\* a command returned an error value; the two functions are applied to it
ErrorInit ==
    /\ store = CHOOSE s \in BackupStores : s.mediaType[RootDigest] = MediaTypeImageManifest
    /\ opts \in BinaryTargets
    /\ args \in ErrorValues
    /\ pc = "returned"
    /\ dstContent = {}
    /\ dstTags = [r \in DstRefs |-> ""]
    /\ desc = ZeroDescriptor
    /\ err = Nil
    /\ extendedCopyOptions = NoOptions
    /\ calleeOpts = NoOptions
    /\ tracking = "none"
    /\ calls = <<>>
    /\ srcOps = <<>>
    /\ reported = <<>>
    /\ tagNDesc = ""
    /\ pending = {}
    /\ tags = <<>>
    /\ tagIndex = 0
    /\ referrerCount = 0
    /\ fs = [tempDir |-> FALSE, tempTar |-> FALSE, ingest |-> FALSE, output |-> "untouched",
             tarState |-> "none", removeFailed |-> {}]
    /\ archive = NoArchive
    /\ ret = <<>>

ReWrapCopyErrorCall ==
    /\ pc = "returned"
    /\ ret' = ReWrapCopyError(args)
    /\ pc' = "reWrapped"
    /\ UNCHANGED <<store, opts, dstContent, dstTags, desc, err, extendedCopyOptions,
                   calleeOpts, tracking, calls, srcOps, reported, args>>
    /\ UNCHANGED <<backupVars, copyVars>>

ModifyErrorCall ==
    /\ pc = "returned"
    /\ ret' = ModifyError(opts, args)
    /\ pc' = "modified"
    /\ UNCHANGED <<store, opts, dstContent, dstTags, desc, err, extendedCopyOptions,
                   calleeOpts, tracking, calls, srcOps, reported, args>>
    /\ UNCHANGED <<backupVars, copyVars>>

ErrorNext ==
    \/ ReWrapCopyErrorCall
    \/ ModifyErrorCall

ErrorSpec == ErrorInit /\ [][ErrorNext]_vars

(***************************************************************************)
(* Properties.                                                             *)
(***************************************************************************)
IsIndex(d) == d.mediaType \in IndexMediaTypes

\* the digests of a list of descriptors
DigestsOf(descs) == {d.digest : d \in SeqToSet(descs)}

\* the referrers the source reports for the child manifests of an index root
ChildReferrers(root) ==
    UNION {SeqToSet(SrcReferrers(Descriptor(c))) : c \in SeqToSet(store.manifests[root.digest])}

\* the merged referrer set a predecessor function appends for its root
MergedReferrers(fp) ==
    IF fp.layers = <<>> THEN {} ELSE SeqToSet(fp.layers[Len(fp.layers)].referrers)

\* the extended copy of the root succeeded: recursiveCopy, or backupTag's
\* ExtendedCopy, returned no error
RecursiveCopySucceeded ==
    \/ /\ opts.cmd = "cp"
       /\ opts.recursive
       /\ \/ pc = "doCopyDefer" /\ err = Nil
          \/ pc \in {"onCopied", "tagN", "tagging", "render"}
    \/ /\ opts.cmd = "backup"
       /\ opts.includeReferrers
       /\ pc = "bReferrers"

\* the errors of computing the closure
ClosureErrors == {"ErrFetch", "ErrDecode", "ErrReferrers"}

\* the descriptors a predecessor function may be asked about: the nodes of the
\* source, and descriptors with a node's digest and another size
QueryNodes == Descriptors \cup {[d EXCEPT !.size = d.size + 1] : d \in Descriptors}

\* C3: no descriptor equal to the root is in the merged referrer set that
\* prepareCopyOption appends for an index root, even when the referrers of the
\* root's children include the root.
C3_SelfReferenceExcluded ==
    \A i \in 1..Len(calleeOpts.FindPredecessors.layers) :
        LET layer == calleeOpts.FindPredecessors.layers[i]
        IN  /\ IsIndex(layer.root)
            /\ \A j \in 1..Len(layer.referrers) : ~Equal(layer.referrers[j], layer.root)

C3_Witness ==
    /\ pc = "extendedCopy"
    /\ calleeOpts.FindPredecessors.layers /= <<>>
    /\ desc \in ChildReferrers(desc)

\* C4: the augmented function returns, for a node that is not the root, exactly
\* what the base lookup returns; for the root, the base lookup's result followed
\* by the whole merged referrer set; and a base lookup error as the error with
\* no descriptors.
C4_AugmentedLookup ==
    LET fp == calleeOpts.FindPredecessors
    IN  fp.layers /= <<>> =>
            /\ Len(fp.layers) = 1
            /\ fp.layers[1].root = desc
            /\ SeqToSet(fp.layers[1].referrers) = ChildReferrers(desc) \ {desc}
            /\ \A node \in QueryNodes, fails \in BOOLEAN :
                  LET base == BaseLookup(extendedCopyOptions.FindPredecessors.base, node, fails)
                      got == CallFindPredecessors(fp, node, fails)
                  IN  IF base.err /= Nil
                      THEN got.err = base.err /\ got.descs = <<>>
                      ELSE /\ got.err = Nil
                           /\ got.descs = IF node = desc
                                          THEN base.descs \o fp.layers[1].referrers
                                          ELSE base.descs

C4_Witness ==
    /\ pc = "extendedCopy"
    /\ calleeOpts.FindPredecessors.layers /= <<>>
    /\ SrcReferrers(desc) /= <<>>

\* C5: for a root that is no index prepareCopyOption returns the options
\* unchanged without fetching the root or querying referrers; it returns them
\* unchanged, too, for an index without manifests and when the merged referrer
\* set without the root is empty.
C5_NoOp ==
    /\ pc \in {"extendedCopy", "bExtendedCopy"}
       /\ (~IsIndex(desc) \/ store.manifests[desc.digest] = <<>>
           \/ ChildReferrers(desc) \ {desc} = {})
       => /\ calleeOpts = extendedCopyOptions
          /\ \A node \in QueryNodes, fails \in BOOLEAN :
                extendedCopyOptions.FindPredecessors.base /= "nil" =>
                    CallFindPredecessors(calleeOpts.FindPredecessors, node, fails)
                    = CallFindPredecessors(extendedCopyOptions.FindPredecessors, node, fails)
    /\ \A i \in 1..Len(srcOps) :
          /\ srcOps[i].op = "FetchAll" => store.mediaType[srcOps[i].arg] \in IndexMediaTypes
          /\ srcOps[i].op = "Referrers" =>
                \E j \in 1..(i - 1) :
                    /\ srcOps[j].op = "FetchAll"
                    /\ srcOps[i].arg \in SeqToSet(store.manifests[srcOps[j].arg])
    /\ pc \in {"doCopyDefer", "bStopTracking"} /\ desc /= ZeroDescriptor /\ ~IsIndex(desc)
       => err \notin ClosureErrors

C5_Witness ==
    /\ pc = "extendedCopy"
    /\ desc.mediaType = MediaTypeImageManifest
    /\ SrcReferrers(desc) /= <<>>

\* C7 as claimed: Mode A (graph copy, no referrers) is the mode whenever the
\* destination reference is empty, Mode B when it is not and recursive is off,
\* Mode C when recursive is on.
C7_Original ==
    opts.cmd = "cp" =>
        \A i \in 1..Len(calls) :
            /\ opts.toRef = "" => calls[i].op = "CopyGraph"
            /\ opts.toRef /= "" /\ ~opts.recursive => calls[i].op = "Copy"
            /\ opts.recursive => calls[i].op \in {"ExtendedCopyGraph", "ExtendedCopy"}

\* C7: exactly one mode applies and doCopy makes that mode's engine call and no
\* other: Mode C (extended copy with referrers) when recursive is on; Mode A
\* (graph copy of the resolved root, no referrers) when recursive is off and the
\* destination reference is empty; Mode B (copy by the reference pair) when
\* recursive is off and the destination reference is not empty.
C7_ModesExclusive ==
    opts.cmd = "cp" =>
        /\ Len(calls) <= 1
        /\ pc \in {"onCopied", "tagN", "tagging", "render"} => Len(calls) = 1
        /\ \A i \in 1..Len(calls) :
              IF opts.recursive
              THEN /\ calls[i].op \in {"ExtendedCopyGraph", "ExtendedCopy"}
                   /\ calls[i].root = desc.digest
                   /\ calls[i].findPredecessors /= NilFindPredecessors
              ELSE IF opts.toRef = ""
              THEN /\ calls[i].op = "CopyGraph"
                   /\ calls[i].root = desc.digest
                   /\ calls[i].findPredecessors = NilFindPredecessors
              ELSE /\ calls[i].op = "Copy"
                   /\ calls[i].root = opts.fromRef
                   /\ calls[i].dstRef = opts.toRef
                   /\ calls[i].findPredecessors = NilFindPredecessors

C7_Witness ==
    /\ opts.cmd = "cp"
    /\ opts.recursive
    /\ opts.toRef = ""
    /\ pc = "onCopied"
    /\ Len(calls) = 1

\* C8: in recursive mode the destination is tagged with the destination
\* reference if and only if the reference is not empty and differs from the
\* root's digest; otherwise the extended graph is copied and nothing is tagged.
C8_TagIffNamed ==
    opts.cmd = "cp" /\ opts.recursive =>
        \A i \in 1..Len(calls) :
            LET named == opts.toRef /= "" /\ opts.toRef /= desc.digest
            IN  /\ calls[i].op = "ExtendedCopy" <=> named
                /\ calls[i].op = "ExtendedCopyGraph" <=> ~named
                /\ calls[i].dstRef = IF named THEN opts.toRef ELSE ""
                /\ pc = "doCopyDefer" =>
                      \A r \in DstRefs :
                          dstTags[r] = IF named /\ err = Nil /\ r = opts.toRef
                                       THEN desc.digest ELSE ""
                /\ pc = "doCopyDefer" /\ err = Nil => desc.digest \in dstContent

C8_Witness ==
    /\ opts.cmd = "cp"
    /\ opts.recursive
    /\ opts.toRef = desc.digest
    /\ pc = "doCopyDefer"
    /\ err = Nil
    /\ Len(calls) = 1

\* C9: the engine is given a mount hint if and only if source and destination
\* are both remote repositories of the same registry; the hint names the source
\* repository.
C9_MountHint ==
    opts.cmd = "cp" =>
        \A i \in 1..Len(calls) :
            LET sameRegistry == /\ opts.src.remote
                                /\ opts.dst.remote
                                /\ opts.src.registry = opts.dst.registry
            IN  /\ calls[i].mountFrom /= "" <=> sameRegistry
                /\ sameRegistry => calls[i].mountFrom = opts.src.repository

C9_Witness ==
    /\ opts.cmd = "cp"
    /\ Len(calls) = 1
    /\ calls[1].op = "ExtendedCopy"
    /\ calls[1].mountFrom = "repoA"

\* the tag fan-out of runCopy has started
FanOutStarted ==
    \/ pc \in {"tagN", "tagging"}
    \/ tagNDesc /= ""
    \/ err = "ErrTagN"
    \/ \E i \in 1..Len(reported) : reported[i].event = "OnTagged"
    \/ \E t \in ExtraTagNames : dstTags[t] /= ""

\* the errors runCopy returns before the fan-out
PrimaryErrors ==
    {"ErrTarget", "ErrStartTracking", "ErrResolve", "ErrCopy", "ErrTag", "ErrStopTracking",
     "ErrOnCopied"} \cup ClosureErrors

\* C10: no extra tag is applied unless the primary copy has succeeded: after an
\* error of doCopy or of reporting the copied artifact the fan-out is never
\* started; the fan-out tags what the first destination reference resolves to
\* at the destination.
C10_FanOutAfterCopy ==
    opts.cmd = "cp" =>
        /\ err \in PrimaryErrors => ~FanOutStarted
        /\ FanOutStarted =>
              /\ Len(calls) = 1
              /\ desc /= ZeroDescriptor
              /\ DownClosure({desc.digest}) \subseteq dstContent
              /\ tracking = "closed"
              /\ reported /= <<>>
              /\ reported[1] = Event("OnCopied", desc.digest,
                                     ReportedSource(opts.fromRef, desc), 0)
        /\ \A t \in ExtraTagNames : dstTags[t] /= "" => dstTags[t] = DstResolve(opts.toRef)
        /\ \A i \in 1..Len(reported) :
              reported[i].event = "OnTagged" => reported[i].digest = DstResolve(opts.toRef)

C10_Witness ==
    /\ opts.cmd = "cp"
    /\ pc = "render"
    /\ Len(opts.extraRefs) = 2
    /\ \A t \in ExtraTagNames : dstTags[t] = desc.digest

\* C1: after a successful recursive copy of an index root the destination
\* holds the root, every child manifest listed in the root, and every referrer
\* the source reported for a child.
C1_ClosureCopied ==
    RecursiveCopySucceeded /\ IsIndex(desc) =>
        /\ desc.digest \in dstContent
        /\ SeqToSet(store.manifests[desc.digest]) \subseteq dstContent
        /\ {r.digest : r \in ChildReferrers(desc)} \subseteq dstContent

C1_Witness ==
    /\ RecursiveCopySucceeded
    /\ IsIndex(desc)
    /\ Len(store.manifests[desc.digest]) = 2
    /\ \E r \in ChildReferrers(desc) : r /= desc /\ store.subject[r.digest] /= desc.digest

C6_ClosureFailureAborts ==
    /\ opts.cmd = "cp" /\ err \in ClosureErrors =>
          /\ pc \in {"doCopyDefer", "done"}
          /\ calls = <<>>
          /\ calleeOpts.FindPredecessors.layers = <<>>
          /\ dstContent = {}
          /\ reported = <<>>
    /\ opts.cmd = "backup" /\ err \in ClosureErrors =>
          /\ pc \in {"bStopTracking", "bReturn", "done"}
          /\ Len(calls) = tagIndex - 1
          /\ calleeOpts.FindPredecessors.layers = <<>>
          /\ Cardinality({i \in 1..Len(reported) : reported[i].event = "OnArtifactPulled"})
             = tagIndex - 1
          /\ \A i \in 1..Len(reported) : reported[i].event /= "OnBackupCompleted"
    /\ \A i \in 1..Len(calls) :
          calls[i].op \in {"ExtendedCopyGraph", "ExtendedCopy"}
          /\ IsIndex(Descriptor(calls[i].root))
          /\ calls[i].findPredecessors.base /= "nil"
          => MergedReferrers(calls[i].findPredecessors)
             = ChildReferrers(Descriptor(calls[i].root)) \ {Descriptor(calls[i].root)}

C6_Witness ==
    /\ opts.cmd = "cp"
    /\ pc = "done"
    /\ err = "ErrReferrers"
    /\ Len(store.manifests[desc.digest]) = 2
    /\ ChildReferrers(desc) \ {desc} /= {}

\* C11: when applying an extra tag fails in the fan-out, runCopy ends with that
\* failure; the extra tags applied before stay applied, and the content and the
\* first tag of the primary copy stay at the destination.
C11_ExtraTagFailureKeepsTags ==
    opts.cmd = "cp" /\ err = "ErrTagN" =>
        /\ pc = "done"
        /\ \A i \in 1..Len(reported) :
              reported[i].event = "OnTagged" => dstTags[reported[i].ref] = reported[i].digest
        /\ DownClosure({desc.digest}) \subseteq dstContent
        /\ opts.toRef /= "" => DstResolve(opts.toRef) = desc.digest
        /\ \A i \in 1..Len(reported) : reported[i].event /= "Render"

C11_Witness ==
    /\ opts.cmd = "cp"
    /\ pc = "done"
    /\ err = "ErrTagN"
    /\ opts.extraRefs = <<"t2", "t3">>
    /\ \E i \in 1..Len(reported) : reported[i].event = "OnTagged"
    /\ \E t \in ExtraTagNames : dstTags[t] = desc.digest

\* C12: when the primary copy succeeds and an extra tag fails afterwards, the
\* digest that was copied has been handed to the metadata handler (OnCopied)
\* before the fan-out, although the command ends in error.
C12_CopiedDigestReported ==
    opts.cmd = "cp" /\ pc = "done" /\ err = "ErrTagN" =>
        /\ desc /= ZeroDescriptor
        /\ desc.digest \in dstContent
        /\ \E r \in SrcResolve(opts.fromRef, opts.platform) : r.err = Nil /\ r.desc = desc
        /\ Len(reported) >= 1
        /\ reported[1].event = "OnCopied"
        /\ reported[1].digest = desc.digest

C12_Witness ==
    /\ opts.cmd = "cp"
    /\ pc = "done"
    /\ err = "ErrTagN"
    /\ tagNDesc /= ""
    /\ opts.platform = TargetPlatform
    /\ reported[1].digest = PlatformManifest

\* a step of the deferred StopTracking of doCopy or of a tag's step of runBackup
TeardownKeepsStepError ==
    pc \in {"doCopyDefer", "bStopTracking"} =>
        /\ tracking = "open"
        /\ tracking' = "closed"
        /\ err /= Nil => err' = err
        /\ err = Nil => err' \in {Nil, "ErrStopTracking"}
        /\ pc' \in {"done", "bReturn"} <=> err' /= Nil

\* C13: once tracking has started, the deferred StopTracking leaves the error
\* of the copy step as it is when that step failed, whether StopTracking fails
\* or not; StopTracking's error is returned only when the step succeeded.
C13_TeardownNeverMasks == [][TeardownKeepsStepError]_vars

C13_Witness ==
    /\ opts.cmd = "backup"
    /\ pc = "bReturn"
    /\ tracking = "closed"
    /\ err = "ErrCopy"
    /\ tagIndex = 2

\* the errors of a tag's step of runBackup
TagStepErrors ==
    {"ErrStartTracking", "ErrCopy", "ErrTag", "ErrResolve", "ErrDstReferrers",
     "ErrStopTracking"} \cup ClosureErrors

\* the events of one kind among the reported ones
EventsOf(kind) == SelectSeq(reported, LAMBDA e : e.event = kind)

\* C14: the first tag whose step fails ends the backup at once: no later tag is
\* processed, no archive is created or moved into place, and completion is
\* never reported.
C14_TagFailureAborts ==
    opts.cmd = "backup" /\ err \in TagStepErrors =>
        /\ pc \in {"bStopTracking", "bReturn", "done"}
        /\ Len(calls) <= tagIndex
        /\ Len(SelectSeq(srcOps, LAMBDA o : o.op = "Resolve")) <= tagIndex
        /\ Len(EventsOf("OnArtifactPulled")) = tagIndex - 1
        /\ EventsOf("OnTarExporting") = <<>>
        /\ EventsOf("OnTarExported") = <<>>
        /\ EventsOf("OnBackupCompleted") = <<>>
        /\ ~fs.tempTar
        /\ fs.tarState = "none"
        /\ fs.output /= "archive"
        /\ archive = NoArchive

C14_Witness ==
    /\ opts.cmd = "backup"
    /\ opts.outputFormat = outputFormatTar
    /\ pc = "done"
    /\ err = "ErrCopy"
    /\ tags = <<"v2", "v1">>
    /\ tagIndex = 1

\* C15: when a backup fails on a tag, nothing of this invocation is left at the
\* requested output path, for the directory and for the archive output.
C15_NoPartialOutput ==
    opts.cmd = "backup" /\ pc = "done" /\ err \in TagStepErrors => fs.output = "untouched"

\* C16: on every exit of runBackup the staging directory and the temporary
\* archive file are gone, unless removing them was tried and failed.
C16_TemporariesRemoved ==
    opts.cmd = "backup" /\ pc \in {"done", "panicked"} =>
        /\ fs.tempDir => "tempDir" \in fs.removeFailed
        /\ fs.tempTar => "tempTar" \in fs.removeFailed

\* the errors of finalizing the archive output
FinalizationErrors ==
    {"ErrCreateTemp", "ErrTarDirectory", "ErrClose", "ErrAbs", "ErrMkdirAll", "ErrRename"}

\* C17: for the archive output the requested path is untouched or holds the
\* complete archive, moved there from a written and closed temporary file; a
\* failure of finalization is returned with nothing at the path, and after a
\* failed move the temporary file is removed.
C17_ArchiveMovedWhole ==
    opts.cmd = "backup" /\ opts.outputFormat = outputFormatTar =>
        /\ fs.output \in {"untouched", "archive"}
        /\ fs.output = "archive" =>
              /\ fs.tarState = "complete"
              /\ ~fs.tempTar
              /\ archive = [content |-> dstContent, tags |-> dstTags]
              /\ \A i \in 1..Len(tags) : archive.tags[tags[i]] \in archive.content
        /\ fs.output = "untouched" => archive = NoArchive
        /\ err \in FinalizationErrors =>
              /\ pc \in {"bReturn", "done"}
              /\ fs.output = "untouched"
        /\ err = "ErrRename" => (~fs.tempTar \/ "tempTar" \in fs.removeFailed)

C17_Witness ==
    /\ opts.cmd = "backup"
    /\ opts.outputFormat = outputFormatTar
    /\ pc = "done"
    /\ err = Nil
    /\ fs.output = "archive"
    /\ Len(tags) = 2
    /\ archive.content /= {}

\* the repository was asked for its tags and returned none
NoTagsDiscovered ==
    /\ opts.cmd = "backup"
    /\ opts.tags = <<>>
    /\ \E i \in 1..Len(srcOps) : srcOps[i].op = "Tags"
    /\ tags = <<>>
    /\ err /= "ErrTags"

\* C18: a backup without explicit tags of a repository that lists no tags fails
\* with the "no tags found" error, which recommends the command that lists
\* tags; nothing is copied, no output is finalized, completion is not reported.
C18_NoTagsFound ==
    NoTagsDiscovered =>
        /\ err = "ErrNoTagsFound"
        /\ Recommendation(err) = "oras repo tags"
        /\ pc \in {"bReturn", "done"}
        /\ calls = <<>>
        /\ dstContent = {}
        /\ reported = <<>>
        /\ ~fs.tempTar
        /\ fs.output /= "archive"
        /\ archive = NoArchive

C18_Witness ==
    /\ NoTagsDiscovered
    /\ pc = "done"
    /\ err = "ErrNoTagsFound"
    /\ opts.outputFormat = outputFormatTar

\* the tags reported as pulled, in the order of the reports
PulledTags == [i \in 1..Len(EventsOf("OnArtifactPulled")) |-> EventsOf("OnArtifactPulled")[i].ref]

\* C19: a backup processes the tags one at a time in the order given (or
\* discovered), a tag given twice is processed twice, and the per-tag reports
\* of a successful backup name the tags in the order of the input.
C19_TagsInOrder ==
    opts.cmd = "backup" /\ tagIndex >= 1 =>
        /\ opts.tags /= <<>> => tags = opts.tags
        /\ tagIndex <= Len(tags)
        /\ Len(calls) <= tagIndex
        /\ \A i \in 1..Len(calls) : calls[i].dstRef = tags[i]
        /\ Len(PulledTags) \in {tagIndex - 1, tagIndex}
        /\ PulledTags = SubSeq(tags, 1, Len(PulledTags))
        /\ Len(calls) <= Len(PulledTags) + 1
        /\ EventsOf("OnBackupCompleted") /= <<>> =>
              /\ PulledTags = tags
              /\ Len(calls) = Len(tags)
              /\ EventsOf("OnBackupCompleted")[1].n = Len(tags)

C19_Witness ==
    /\ opts.cmd = "backup"
    /\ pc = "done"
    /\ err = Nil
    /\ opts.tags = <<"v2", "v1">>
    /\ PulledTags = <<"v2", "v1">>

\* the extra references reported as tagged, in the order of the reports
TaggedRefs == [i \in 1..Len(EventsOf("OnTagged")) |-> EventsOf("OnTagged")[i].ref]

\* C20: in a multi-tag copy the extra tags are applied and reported as tagged
\* in the order the user gave them, whatever the concurrency.
C20_ExtraTagsInOrder ==
    opts.cmd = "cp" => TaggedRefs = SubSeq(opts.extraRefs, 1, Len(TaggedRefs))

\* the tag grammar: a letter, a digit or an underscore, then at most 127
\* letters, digits, underscores, dots or hyphens
TagGrammar(tag) ==
    /\ Len(tag) \in 1..128
    /\ tag[1] \in Word
    /\ \A i \in 2..Len(tag) : tag[i] \in Word \cup {".", "-"}

\* the tags a reference gives: the entries after its last colon, trimmed,
\* without the empty ones
GivenTags(artifactRefs) ==
    LET colon == LastIndexByte(artifactRefs, ":")
        entries == Split(SubSeq(artifactRefs, colon + 1, Len(artifactRefs)), ",")
        trimmed == [i \in 1..Len(entries) |-> TrimSpace(entries[i])]
    IN  IF colon = 0 \/ colon < LastIndexByte(artifactRefs, "/") THEN <<>>
        ELSE SelectSeq(trimmed, LAMBDA t : t /= <<>>)

\* PreRunE has called parseArtifactsToBackup
Parsed == pc /= "preRun" /\ err /= "ErrOptionParse"

\* parseArtifactsToBackup got as far as the tags
ParsedTags ==
    /\ Parsed
    /\ ret.err \notin {"ErrEmptyReference", "ErrDigestReference", "ErrInvalidRepository"}

\* C21: parseArtifactsToBackup accepts the tags of a reference exactly when
\* each of them matches the tag grammar; the first tag that does not match
\* (leading punctuation, white space inside, more than 128 characters) makes
\* the parse fail with an error that names that tag, and neither a repository
\* nor a tag list is returned.
C21_TagGrammar ==
    ParsedTags =>
        LET given == GivenTags(args)
            bad == SelectSeq(given, LAMBDA t : ~TagGrammar(t))
        IN  IF bad = <<>>
            THEN ret.err = Nil /\ ret.tags = given
            ELSE /\ ret.err = "ErrInvalidTag"
                 /\ ret.quoted = bad[1]
                 /\ ret.repository = <<>>
                 /\ ret.tags = <<>>

\* a tag of 128 characters is accepted next to one of 129 characters that fails
C21_Witness ==
    /\ ParsedTags
    /\ ret.err = "ErrInvalidTag"
    /\ Len(ret.quoted) = 129
    /\ \E t \in SeqToSet(GivenTags(args)) : Len(t) = 128

\* the errors parseArtifactsToBackup finds in the reference
InputErrors ==
    {"ErrEmptyReference", "ErrDigestReference", "ErrInvalidRepository", "ErrInvalidTag"}

\* nothing was created and no store was asked for anything
NothingStarted ==
    /\ srcOps = <<>>
    /\ calls = <<>>
    /\ reported = <<>>
    /\ tracking = "none"
    /\ dstContent = {}
    /\ \A r \in DstRefs : dstTags[r] = ""
    /\ ~fs.tempDir /\ ~fs.tempTar /\ ~fs.ingest
    /\ fs.output = "untouched"
    /\ archive = NoArchive

\* C22: an input error of backup (empty reference, '@' in the reference,
\* invalid repository, invalid tag) ends the command before runBackup: no
\* repository handle, staging directory or destination store is created and
\* no resolve, list, fetch or push is issued.
C22_InputErrorsFirst ==
    err \in InputErrors => pc = "done" /\ NothingStarted

\* a digest reference was refused
C22_Witness ==
    /\ pc = "done"
    /\ err = "ErrDigestReference"
    /\ ret.quoted = args

\* the backup ended without an error
BackupSucceeded == opts.cmd = "backup" /\ pc = "done" /\ err = Nil

\* C23: after a successful backup without referrers into an archive, every
\* tag backed up resolves in the archive to the digest the source resolved it
\* to, and the archive holds that node.
C23_ArchiveRoundTrip ==
    BackupSucceeded /\ opts.outputFormat = outputFormatTar /\ ~opts.includeReferrers =>
        \A i \in 1..Len(tags) :
            /\ SrcTarget(tags[i]) /= ""
            /\ archive.tags[tags[i]] = SrcTarget(tags[i])
            /\ archive.tags[tags[i]] \in archive.content

\* two tags naming different nodes were backed up into an archive
C23_Witness ==
    /\ BackupSucceeded /\ opts.outputFormat = outputFormatTar /\ ~opts.includeReferrers
    /\ fs.output = "archive"
    /\ tags = <<"v1", "v2">>
    /\ archive.tags["v1"] /= archive.tags["v2"]

\* the source operations that only read
ReadOps == {"FetchAll", "Referrers"}

\* a step of prepareCopyOption only reads, and gives back the options it got
\* with at most the predecessor function changed
PrepareOnlyReads ==
    pc \in {"recursiveCopy", "bPrepare"} =>
        /\ store' = store
        /\ dstContent' = dstContent
        /\ dstTags' = dstTags
        /\ desc' = desc
        /\ calls' = calls
        /\ fs' = fs
        /\ archive' = archive
        /\ extendedCopyOptions' = extendedCopyOptions
        /\ calleeOpts'.MountFrom = extendedCopyOptions.MountFrom
        /\ Len(srcOps') >= Len(srcOps)
        /\ SubSeq(srcOps', 1, Len(srcOps)) = srcOps
        /\ \A i \in (Len(srcOps) + 1)..Len(srcOps') : srcOps'[i].op \in ReadOps

\* C24: prepareCopyOption performs only reads: it changes neither the source
\* nor the destination store, nor the root descriptor, and nothing of the
\* copy options but the predecessor function.
C24_PrepareOnlyReads == [][PrepareOnlyReads]_vars

\* the options were prepared for an index root, with a mount hint, and got a
\* new predecessor function
C24_Witness ==
    /\ pc = "extendedCopy"
    /\ IsIndex(desc)
    /\ calleeOpts.MountFrom /= ""
    /\ calleeOpts.FindPredecessors /= extendedCopyOptions.FindPredecessors
    /\ \E i \in 1..Len(srcOps) : srcOps[i].op = "Referrers"

\* C25: ReWrapCopyError returns true exactly when its input is itself an
\* Error whose Err is directly a CopyError; the result is then an Error with
\* the same operation type, usage and recommendation whose Err is the error
\* inside the CopyError.  Every other input (nil, a plain error, an Error
\* without a CopyError, an error that wraps a CopyError or an Error) comes
\* back unchanged with false.  The table of TestReWrapCopyError is met.
C25_ReWrapCopyError ==
    pc = "reWrapped" =>
        /\ ret.ok <=> (args.kind = "Error" /\ args.err.kind = "CopyError")
        /\ ret.ok =>
              /\ ret.err.kind = "Error"
              /\ ret.err.operationType = args.operationType
              /\ ret.err.usage = args.usage
              /\ ret.err.recommendation = args.recommendation
              /\ ret.err.err = args.err.err
        /\ ~ret.ok => ret.err = args
        /\ \A t \in ReWrapTests :
              t.inputErr = args => ret.ok = t.wantBool /\ ret.err = t.wantErr

\* an Error that holds a CopyError that holds an Error was rewrapped
C25_Witness ==
    /\ pc = "reWrapped"
    /\ ret.ok
    /\ args.err.err.kind = "Error"
    /\ ret.err.err = args.err.err

\* C26: ModifyError reports modified and returns the inner error exactly when
\* the error is itself a CopyError; the error prefix of the command then
\* names the source (type and raw reference) for a Source origin, the
\* destination for a Destination origin, and is the plain "Error:" for any
\* other origin.  An error that only wraps a CopyError comes back unchanged
\* and not modified.  The table of TestBinaryTarget_ModifyError is met.
C26_ModifyError ==
    pc = "modified" =>
        /\ ret.modified <=> args.kind = "CopyError"
        /\ ret.modified =>
              /\ ret.err = args.err
              /\ args.origin = CopyErrorOriginSource =>
                    ret.prefix = [side |-> "source", type |-> opts.From.Type,
                                  reference |-> opts.From.RawReference]
              /\ args.origin = CopyErrorOriginDestination =>
                    ret.prefix = [side |-> "destination", type |-> opts.To.Type,
                                  reference |-> opts.To.RawReference]
              /\ args.origin \notin {CopyErrorOriginSource, CopyErrorOriginDestination} =>
                    ret.prefix = DefaultErrPrefix
        /\ ~ret.modified => ret.err = args
        /\ \A t \in ModifyErrorTests :
              t.err = args /\ t.target = opts =>
                  /\ ret.modified = t.wantModified
                  /\ ret.err = t.wantErr
                  /\ t.wantModified => ret.prefix = t.wantPrefix

\* a CopyError of the destination was taken apart
C26_Witness ==
    /\ pc = "modified"
    /\ ret.modified
    /\ args.origin = CopyErrorOriginDestination
    /\ ret.prefix.side = "destination"
    /\ ret.prefix.type = "oci-layout"

\* the positions of runBackup inside a tag's step, after StartTracking
InTagStep == {"bCopy", "bResolve", "bPrepare", "bExtendedCopy", "bReferrers", "bStopTracking"}

\* a step of oras backup keeps the tracking scopes apart
TrackingScoped ==
    opts.cmd = "backup" =>
        \* a scope is open exactly inside a tag's step
        /\ pc' \in InTagStep <=> tracking' = "open"
        \* it is opened by StartTracking only, and closed by StopTracking only
        /\ tracking' /= tracking =>
              \/ pc = "bStartTracking" /\ tracking /= "open" /\ tracking' = "open"
              \/ pc = "bStopTracking" /\ tracking = "open" /\ tracking' = "closed"
        \* StopTracking runs once, on success and on failure of the copy
        /\ pc = "bStopTracking" => tracking' = "closed" /\ pc' \in {"bPulled", "bReturn"}
        \* when StartTracking fails nothing is copied and nothing is stopped
        /\ pc = "bStartTracking" /\ tracking' /= "open" =>
              /\ pc' = "bReturn"
              /\ tracking' = tracking
              /\ calls' = calls /\ srcOps' = srcOps
              /\ dstContent' = dstContent /\ dstTags' = dstTags
        \* copies, resolves and referrer queries run inside the scope
        /\ calls' /= calls => tracking = "open"
        /\ srcOps' /= srcOps /\ pc /= "findTags" => tracking = "open"
        /\ referrerCount' /= referrerCount /\ pc /= "bStartTracking" => tracking = "open"

\* C27: in runBackup the tracking scopes are per tag and never overlap: a
\* StartTracking that succeeded is followed by one StopTracking, on success
\* and on failure of the tag's copy, before the next StartTracking and before
\* the output is finalized; no copy, resolve or referrer query runs outside
\* the scope; when StartTracking fails neither StopTracking nor a copy follows.
C27_TrackingScopes == [][TrackingScoped]_vars

\* the scope of the second tag is open after the first one was closed
C27_Witness ==
    /\ opts.cmd = "backup"
    /\ tagIndex = 2
    /\ tracking = "open"
    /\ pc = "bStopTracking"
    /\ err /= Nil

\* C28: wherever prepareCopyOption is called (recursive copy, backup with
\* referrers) the predecessor function of the options it gets is defined, so
\* no lookup ever calls a nil function.
C28_BaseLookupDefined ==
    /\ pc = "recursiveCopy" => extendedCopyOptions.FindPredecessors.base /= "nil"
    /\ pc = "bPrepare" => calleeOpts.FindPredecessors.base /= "nil"
    /\ err /= PanicNilFunc
    /\ pc /= "panicked"

\* the reference has a tag part that is not empty
HasTagPart(artifactRefs) ==
    LET colon == LastIndexByte(artifactRefs, ":")
    IN  colon /= 0 /\ colon > LastIndexByte(artifactRefs, "/") /\ colon < Len(artifactRefs)

\* the entries of the tag part of the reference, as they were written
TagPartEntries(artifactRefs) ==
    Split(SubSeq(artifactRefs, LastIndexByte(artifactRefs, ":") + 1, Len(artifactRefs)), ",")

\* the source was asked for the tags of the repository
TagsListed == \E i \in 1..Len(srcOps) : srcOps[i].op = "Tags"

\* C30: parseArtifactsToBackup trims every comma-separated tag and skips the
\* empty entries; a tag part that is not empty but holds only empty entries
\* gives an empty tag list without an error, and the backup then lists the
\* tags of the repository and backs them up, as it does without a tag part.
C30_TrimAndSkip ==
    ParsedTags =>
        LET entries == IF HasTagPart(args) THEN TagPartEntries(args) ELSE <<>>
            trimmed == [i \in 1..Len(entries) |-> TrimSpace(entries[i])]
            given == SelectSeq(trimmed, LAMBDA t : t /= <<>>)
        IN  /\ (\A i \in 1..Len(given) : TagGrammar(given[i])) =>
                  /\ ret.err = Nil
                  /\ ret.tags = given
                  /\ opts.tags = [i \in 1..Len(given) |-> Str(given[i])]
            /\ given = <<>> =>
                  /\ err /= "ErrInvalidTag"
                  /\ tagIndex >= 1 => TagsListed /\ tags = <<"v1", "v2">>
            /\ given /= <<>> => ~TagsListed

\* a tag part of commas and white space only: the tags of the repository were
\* found and backed up
C30_Witness ==
    /\ ParsedTags
    /\ HasTagPart(args)
    /\ Len(TagPartEntries(args)) = 2
    /\ ret.tags = <<>>
    /\ pc = "done" /\ err = Nil
    /\ tags = <<"v1", "v2">>
    /\ Len(EventsOf("OnArtifactPulled")) = 2

====
